---- MODULE Spec2Model ----
(***************************************************************************)
(* SecurBank portal: the payment-status workflow driven by the employee    *)
(* portal and the registration / login handlers of the Express API.        *)
(*                                                                         *)
(* The repository carries two employee portals.  One (pages/EmployeePortal *)
(* .tsx) writes the Supabase table "payments" directly from the browser;   *)
(* the other (the api-based EmployeePortal) calls                          *)
(* POST /api/transactions/verify and /submit-to-swift.  A build ships one  *)
(* of them: SpecPay is the first, SpecApi the second.                      *)
(***************************************************************************)
EXTENDS Integers, Sequences, FiniteSets, TLC

\* ------------------------------------------------------------------ bounds
MaxPayments == 2
MaxOps == 3
MaxLoginOps == 3
MaxApiOps == 3
MaxRequests == 2

Employees == {"emp1", "emp2"}
Customers == {"cust1", "cust2"}
Clients == {"client1", "client2"}
PaymentIds == 1..MaxPayments

\* SQL NULL / JS null for a reference column, and for a timestamp column
NULL == "null"
NULL_AT == 0

VARIABLES
    now,                   \* wall clock (new Date()), read once per operation
    ops,                   \* number of user operations started so far
    dbPayments,            \* Supabase table "payments": id -> row
    payments,              \* React state `payments` of each user's page
    employeeData,          \* React state `employeeData` of each employee's page
    dbTransactions,        \* collection behind /api/transactions: id -> doc
    transactions,          \* React state `transactions` of each employee's page
    selectedTransactions,  \* React state `selectedTransactions` (array of ids)
    isLoading,             \* React state `isLoading` of each employee's page
    call,                  \* the request an employee's handler is awaiting
    result,                \* outcome of the last finished handler (toast shown)
    authSession,           \* the Supabase auth session each browser holds
    location,              \* the route each browser shows
    users,                 \* the User collection (credential store)
    req,                   \* the /api/auth request each client has in flight
    resp,                  \* the last response each client received
    session,               \* req.session of each client's cookie
    requests,              \* number of /api/auth requests sent so far
    lastClient,            \* the client whose request arrived last
    clock,                 \* Date.now() of the server, in milliseconds
    store,                 \* the session store: session id -> stored session
    nextSid,               \* the next session id the server generates
    hits,                  \* store of authLimiter: client ip -> window
    globalHits,            \* store of the global rate limiter: client ip -> window
    brute,                 \* store of bruteForceProtection: identity -> failures
    fails,                 \* per identity, when its latest run of 401 answers came
    cookie,                \* the "sid" cookie each client's browser holds
    reply                  \* the response to the request that arrived last

loginVars == <<authSession, location>>

flowVars == <<now, ops, dbPayments, payments, employeeData,
              dbTransactions, transactions, selectedTransactions,
              isLoading, call, result, loginVars>>

gateVars == <<clock, store, nextSid, hits, globalHits, brute, fails,
             cookie, reply>>

authVars == <<users, req, resp, session, requests, lastClient, gateVars>>

vars == <<flowVars, authVars>>

NoCall == [op |-> "none"]
NoResult == [op |-> "none"]

\* supabase.auth holds no session
NoAuthSession == [user |-> NULL, attempt |-> 0]

Range(s) == {s[i] : i \in DOMAIN s}

\* ---------------------------------------------------------------- helpers
\* the list a page holds after a fetch: the id and status of every row
Snapshot(table) == [id \in DOMAIN table |-> table[id].status]

\* selectedTransactions.filter(id => id !== transactionId)
RECURSIVE Filter(_, _)
Filter(s, x) ==
    IF s = <<>> THEN <<>>
    ELSE IF Head(s) = x THEN Filter(Tail(s), x)
         ELSE <<Head(s)>> \o Filter(Tail(s), x)

\* ------------------------------------------------------------------- Init
InitFlow ==
    /\ now = 1
    /\ ops = 0
    /\ dbPayments = <<>>
    /\ payments = [u \in Employees \cup Customers |-> <<>>]
    /\ employeeData = [e \in Employees |-> NULL]
    /\ dbTransactions = <<>>
    /\ transactions = [e \in Employees |-> <<>>]
    /\ selectedTransactions = [e \in Employees |-> <<>>]
    /\ isLoading = [e \in Employees |-> FALSE]
    /\ call = [e \in Employees |-> NoCall]
    /\ result = [e \in Employees |-> NoResult]
    /\ authSession = [e \in Employees |-> NoAuthSession]
    /\ location = [e \in Employees |-> "/"]

\* ------------------------------------------ customer: create a payment
\* CustomerDashboard.onSubmit: insert into "payments" with status "pending"
onSubmit(c) ==
    /\ Len(dbPayments) < MaxPayments
    /\ dbPayments' = Append(dbPayments,
            [customer_id |-> c, status |-> "pending",
             verified_by |-> NULL, verified_at |-> NULL_AT])
    /\ UNCHANGED <<authVars, loginVars, now, ops, payments, employeeData, dbTransactions,
                   transactions, selectedTransactions, isLoading, call, result>>

\* variant: the select without the customer_id filter
OwnPayments_NoFilter(table, c) == Snapshot(table)

\* .from("payments").select("*").eq("customer_id", customer.id)
OwnPayments(table, c) ==
    [id \in {i \in DOMAIN table : table[i].customer_id = c} |-> table[id].status]

\* CustomerDashboard.fetchPayments: the customer's page loads its list
customerFetchPayments(c) ==
    /\ payments[c] # OwnPayments(dbPayments, c)
    /\ payments' = [payments EXCEPT ![c] = OwnPayments(dbPayments, c)]
    /\ UNCHANGED <<authVars, loginVars, now, ops, dbPayments, employeeData, dbTransactions,
                   transactions, selectedTransactions, isLoading, call, result>>

\* ------------------------------------- Supabase employee portal (browser)
fetchEmployeeData(e) ==
    /\ employeeData[e] = NULL
    /\ employeeData' = [employeeData EXCEPT ![e] = e]
    /\ UNCHANGED <<authVars, loginVars, now, ops, dbPayments, payments, dbTransactions,
                   transactions, selectedTransactions, isLoading, call, result>>

fetchPayments(e) ==
    /\ payments[e] # Snapshot(dbPayments)
    /\ payments' = [payments EXCEPT ![e] = Snapshot(dbPayments)]
    /\ UNCHANGED <<authVars, loginVars, now, ops, dbPayments, employeeData, dbTransactions,
                   transactions, selectedTransactions, isLoading, call, result>>

\* the "Verify" button is rendered for rows the page shows as pending
VerifyButton(e, id) ==
    /\ id \in DOMAIN payments[e]
    /\ payments[e][id] = "pending"
    /\ ~isLoading[e]

\* variant: the button is also rendered for rows the page shows as pending
SubmitButton_AnyStatus(e, id) ==
    /\ id \in DOMAIN payments[e]
    /\ payments[e][id] \in {"pending", "verified"}
    /\ ~isLoading[e]

\* the "Submit to SWIFT" button is rendered for rows the page shows as verified
SubmitButton(e, id) ==
    /\ id \in DOMAIN payments[e]
    /\ payments[e][id] = "verified"
    /\ ~isLoading[e]

\* verifyPayment up to the await: the update is built and sent
verifyPayment(e, id) ==
    /\ ops < MaxOps
    /\ VerifyButton(e, id)
    /\ ops' = ops + 1
    /\ IF employeeData[e] = NULL
       THEN \* employeeData.id throws inside try: catch, toast, finally
            /\ result' = [result EXCEPT ![e] =
                   [op |-> "verify", id |-> id, ok |-> FALSE,
                    toast |-> "Verification failed",
                    pre |-> dbPayments[id], post |-> dbPayments[id],
                    seen |-> dbPayments[id].status]]
            /\ UNCHANGED <<isLoading, call>>
       ELSE /\ isLoading' = [isLoading EXCEPT ![e] = TRUE]
            /\ call' = [call EXCEPT ![e] =
                   [op |-> "verify", id |-> id,
                    verified_by |-> employeeData[e], verified_at |-> now,
                    seen |-> dbPayments[id].status]]
            /\ UNCHANGED result
    /\ now' = now + 1
    /\ UNCHANGED <<authVars, loginVars, dbPayments, payments, employeeData,
                   dbTransactions, transactions, selectedTransactions>>

\* variant: the update writes the status only
UpdateVerified_StatusOnly(row, c) == [row EXCEPT !.status = "verified"]

\* .update({status, verified_by, verified_at}).eq("id", paymentId)
UpdateVerified(row, c) ==
    [row EXCEPT !.status = "verified",
                !.verified_by = c.verified_by,
                !.verified_at = c.verified_at]

\* the update reaches the table; the handler resumes: toast, fetchPayments
verifyPaymentDone(e) ==
    /\ call[e].op = "verify"
    /\ LET c == call[e]
           row == dbPayments[c.id]
           new == UpdateVerified(row, c)
       IN /\ dbPayments' = [dbPayments EXCEPT ![c.id] = new]
          /\ result' = [result EXCEPT ![e] =
                 [op |-> "verify", id |-> c.id, ok |-> TRUE,
                  toast |-> "Payment verified",
                  pre |-> row, post |-> new, seen |-> c.seen]]
    /\ payments' = [payments EXCEPT ![e] = Snapshot(dbPayments')]
    /\ isLoading' = [isLoading EXCEPT ![e] = FALSE]
    /\ call' = [call EXCEPT ![e] = NoCall]
    /\ UNCHANGED <<authVars, loginVars, now, ops, employeeData, dbTransactions,
                   transactions, selectedTransactions>>

\* submitToSwift(paymentId) up to the await
submitPayment(e, id) ==
    /\ ops < MaxOps
    /\ SubmitButton(e, id)
    /\ ops' = ops + 1
    /\ isLoading' = [isLoading EXCEPT ![e] = TRUE]
    /\ call' = [call EXCEPT ![e] =
           [op |-> "submit", id |-> id, seen |-> dbPayments[id].status]]
    /\ UNCHANGED <<authVars, loginVars, now, dbPayments, payments, employeeData,
                   dbTransactions, transactions, selectedTransactions, result>>

\* .update({status: "submitted_to_swift"}).eq("id", paymentId)
UpdateSubmitted(row) == [row EXCEPT !.status = "submitted_to_swift"]

submitPaymentDone(e) ==
    /\ call[e].op = "submit"
    /\ LET c == call[e]
           row == dbPayments[c.id]
           new == UpdateSubmitted(row)
       IN /\ dbPayments' = [dbPayments EXCEPT ![c.id] = new]
          /\ result' = [result EXCEPT ![e] =
                 [op |-> "submit", id |-> c.id, ok |-> TRUE,
                  toast |-> "Submitted to SWIFT",
                  pre |-> row, post |-> new, seen |-> c.seen]]
    /\ payments' = [payments EXCEPT ![e] = Snapshot(dbPayments')]
    /\ isLoading' = [isLoading EXCEPT ![e] = FALSE]
    /\ call' = [call EXCEPT ![e] = NoCall]
    /\ UNCHANGED <<authVars, loginVars, now, ops, employeeData, dbTransactions,
                   transactions, selectedTransactions>>

\* ------------------------------------ customer: POST /api/transactions
\* api.createTransaction; the route handler stores a pending transaction
createTransaction(c) ==
    /\ Len(dbTransactions) < MaxPayments
    /\ dbTransactions' = Append(dbTransactions,
            [customerId |-> c, status |-> "pending",
             verifiedBy |-> NULL, verifiedAt |-> NULL_AT])
    /\ UNCHANGED <<authVars, loginVars, now, ops, dbPayments, payments, employeeData,
                   transactions, selectedTransactions, isLoading, call, result>>

\* ---------------------------- /api/transactions route handlers (server)
\* POST /transactions/verify: pending -> verified only, else InvalidState
VerifyStatus(doc) == IF doc.status = "pending" THEN 200 ELSE 400

VerifyDoc(doc, e, t) ==
    IF doc.status = "pending"
    THEN [doc EXCEPT !.status = "verified", !.verifiedBy = e, !.verifiedAt = t]
    ELSE doc

\* POST /transactions/submit-to-swift: the verified subset becomes submitted
Eligible(coll, ids) == {id \in ids : id \in DOMAIN coll /\ coll[id].status = "verified"}

SubmitDocs(coll, ids) ==
    [id \in DOMAIN coll |->
        IF id \in Eligible(coll, ids)
        THEN [coll[id] EXCEPT !.status = "submitted"]
        ELSE coll[id]]

\* the documents a request modified
Changed(old, new) == {id \in DOMAIN old : new[id] # old[id]}

SubmittedCount(coll, ids) == Cardinality(Eligible(coll, ids))

\* ------------------------------------------ api employee portal (browser)
fetchPendingTransactions(e) ==
    /\ transactions[e] # Snapshot(dbTransactions)
    /\ transactions' = [transactions EXCEPT ![e] = Snapshot(dbTransactions)]
    /\ UNCHANGED <<authVars, loginVars, now, ops, dbPayments, payments, employeeData,
                   dbTransactions, selectedTransactions, isLoading, call, result>>

\* the checkbox is rendered for rows the page shows as verified
Checkbox(e, id) ==
    /\ id \in DOMAIN transactions[e]
    /\ transactions[e][id] = "verified"

Includes(s, x) == x \in Range(s)

\* handleSelectTransaction(transactionId, checked); clicking toggles the box
handleSelectTransaction(e, id) ==
    /\ Checkbox(e, id)
    /\ selectedTransactions' = [selectedTransactions EXCEPT ![e] =
           IF ~Includes(selectedTransactions[e], id)
           THEN Append(selectedTransactions[e], id)
           ELSE Filter(selectedTransactions[e], id)]
    /\ UNCHANGED <<authVars, loginVars, now, ops, dbPayments, payments, employeeData,
                   dbTransactions, transactions, isLoading, call, result>>

VerifyTxButton(e, id) ==
    /\ id \in DOMAIN transactions[e]
    /\ transactions[e][id] = "pending"
    /\ ~isLoading[e]

\* verifyTransaction up to the await
verifyTransaction(e, id) ==
    /\ ops < MaxApiOps
    /\ VerifyTxButton(e, id)
    /\ ops' = ops + 1
    /\ isLoading' = [isLoading EXCEPT ![e] = TRUE]
    /\ call' = [call EXCEPT ![e] =
           [op |-> "verify", id |-> id, seen |-> dbTransactions[id].status]]
    /\ UNCHANGED <<authVars, loginVars, now, dbPayments, payments, employeeData,
                   dbTransactions, transactions, selectedTransactions, result>>

\* the server handles the request; the handler resumes with result
verifyTransactionDone(e) ==
    /\ call[e].op = "verify"
    /\ LET c == call[e]
           doc == dbTransactions[c.id]
           new == VerifyDoc(doc, e, now)
           status == VerifyStatus(doc)
       IN /\ dbTransactions' = [dbTransactions EXCEPT ![c.id] = new]
          /\ result' = [result EXCEPT ![e] =
                 [op |-> "verify", id |-> c.id, ok |-> (status = 200),
                  toast |-> IF status = 200 THEN "Transaction verified"
                            ELSE "Verification failed",
                  pre |-> doc, post |-> new, seen |-> c.seen]]
          \* fetchPendingTransactions() is only called on success
          /\ transactions' = [transactions EXCEPT ![e] =
                 IF status = 200 THEN Snapshot(dbTransactions') ELSE @]
    /\ isLoading' = [isLoading EXCEPT ![e] = FALSE]
    /\ call' = [call EXCEPT ![e] = NoCall]
    /\ now' = now + 1
    /\ UNCHANGED <<authVars, loginVars, ops, dbPayments, payments, employeeData,
                   selectedTransactions>>

\* the "Submit n to SWIFT" button is rendered when something is selected
SubmitTxButton(e) ==
    /\ Len(selectedTransactions[e]) > 0
    /\ ~isLoading[e]

\* submitToSwift up to the await
submitToSwift(e) ==
    /\ ops < MaxApiOps
    /\ SubmitTxButton(e)
    /\ ops' = ops + 1
    /\ isLoading' = [isLoading EXCEPT ![e] = TRUE]
    /\ call' = [call EXCEPT ![e] =
           [op |-> "submit", ids |-> selectedTransactions[e]]]
    /\ UNCHANGED <<authVars, loginVars, now, dbPayments, payments, employeeData,
                   dbTransactions, transactions, selectedTransactions, result>>

\* `${result.data?.submittedCount || selectedTransactions.length}`
ToastCount(submittedCount, selected) ==
    IF submittedCount # 0 THEN submittedCount ELSE Len(selected)

submitToSwiftDone(e) ==
    /\ call[e].op = "submit"
    /\ LET c == call[e]
           ids == Range(c.ids)
           n == SubmittedCount(dbTransactions, ids)
       IN /\ dbTransactions' = SubmitDocs(dbTransactions, ids)
          /\ result' = [result EXCEPT ![e] =
                 [op |-> "submit", ids |-> c.ids, ok |-> TRUE,
                  toast |-> "Submitted to SWIFT",
                  submittedCount |-> n,
                  shown |-> ToastCount(n, c.ids),
                  changed |-> Changed(dbTransactions, dbTransactions')]]
    /\ selectedTransactions' = [selectedTransactions EXCEPT ![e] = <<>>]
    /\ transactions' = [transactions EXCEPT ![e] = Snapshot(dbTransactions')]
    /\ isLoading' = [isLoading EXCEPT ![e] = FALSE]
    /\ call' = [call EXCEPT ![e] = NoCall]
    /\ UNCHANGED <<authVars, loginVars, now, ops, dbPayments, payments, employeeData>>

\* api.submitToSwift({transactionIds}) called with any list of ids
apiSubmitToSwift(e, ids) ==
    /\ ops < MaxApiOps
    /\ ~isLoading[e]
    /\ ids # {}
    /\ ops' = ops + 1
    /\ LET n == SubmittedCount(dbTransactions, ids)
       IN /\ dbTransactions' = SubmitDocs(dbTransactions, ids)
          /\ result' = [result EXCEPT ![e] =
                 [op |-> "api-submit", ids |-> ids, ok |-> TRUE,
                  toast |-> "none",
                  submittedCount |-> n, shown |-> n,
                  changed |-> Changed(dbTransactions, dbTransactions')]]
    /\ UNCHANGED <<authVars, loginVars, now, dbPayments, payments, employeeData,
                   transactions, selectedTransactions, isLoading, call>>

NextPay ==
    \/ \E c \in Customers : onSubmit(c)
    \/ \E e \in Employees : fetchEmployeeData(e)
    \/ \E e \in Employees : fetchPayments(e)
    \/ \E e \in Employees, id \in PaymentIds : verifyPayment(e, id)
    \/ \E e \in Employees : verifyPaymentDone(e)
    \/ \E e \in Employees, id \in PaymentIds : submitPayment(e, id)
    \/ \E e \in Employees : submitPaymentDone(e)

\* customers submit payments and load their lists while an employee works
NextOwn ==
    \/ \E c \in Customers : onSubmit(c)
    \/ \E c \in Customers : customerFetchPayments(c)
    \/ \E e \in {"emp1"} : fetchEmployeeData(e)
    \/ \E e \in {"emp1"} : fetchPayments(e)
    \/ \E e \in {"emp1"}, id \in PaymentIds : verifyPayment(e, id)
    \/ \E e \in {"emp1"} : verifyPaymentDone(e)

NextApi ==
    \/ \E c \in Customers : createTransaction(c)
    \/ \E e \in Employees : fetchPendingTransactions(e)
    \/ \E e \in Employees, id \in PaymentIds : handleSelectTransaction(e, id)
    \/ \E e \in Employees, id \in PaymentIds : verifyTransaction(e, id)
    \/ \E e \in Employees : verifyTransactionDone(e)
    \/ \E e \in Employees : submitToSwift(e)
    \/ \E e \in Employees : submitToSwiftDone(e)
    \/ \E e \in Employees, ids \in SUBSET PaymentIds : apiSubmitToSwift(e, ids)


\* =================================================== credential store and
\* =================================================== /api/auth route handlers
UPPER == {"A","B","C","D","E","F","G","H","I","J","K","L","M",
          "N","O","P","Q","R","S","T","U","V","W","X","Y","Z"}
LOWER == {"a","b","c","d","e","f","g","h","i","j","k","l","m",
          "n","o","p","q","r","s","t","u","v","w","x","y","z"}
DIGIT == {"0","1","2","3","4","5","6","7","8","9"}
SPACE == {" "}

\* character by character image of String.prototype.toUpperCase on the
\* letters the inputs use
UpperOf(ch) ==
    CASE ch = "a" -> "A" [] ch = "b" -> "B" [] ch = "c" -> "C"
      [] ch = "d" -> "D" [] ch = "e" -> "E" [] ch = "f" -> "F"
      [] OTHER -> ch

ToUpperCase(s) == [i \in 1..Len(s) |-> UpperOf(s[i])]

\* String.prototype.trim
RECURSIVE TrimStart(_)
TrimStart(s) ==
    IF s # <<>> /\ Head(s) \in SPACE THEN TrimStart(Tail(s)) ELSE s

RECURSIVE TrimEnd(_)
TrimEnd(s) ==
    IF s # <<>> /\ s[Len(s)] \in SPACE THEN TrimEnd(SubSeq(s, 1, Len(s) - 1)) ELSE s

Trim(s) == TrimEnd(TrimStart(s))

\* /^[class]{lo,hi}$/
MatchesAll(s, class, lo, hi) ==
    /\ Len(s) >= lo
    /\ Len(s) <= hi
    /\ \A i \in 1..Len(s) : s[i] \in class

\* /[class]/
HasChar(s, class) == \E i \in 1..Len(s) : s[i] \in class

\* PATTERNS
FullNamePattern(s) == MatchesAll(s, UPPER \cup LOWER \cup SPACE \cup {"'", "-"}, 2, 100)
IdNumberPattern(s) == MatchesAll(s, UPPER \cup DIGIT, 6, 20)
AccountNumberPattern(s) == MatchesAll(s, DIGIT, 8, 20)
UsernamePattern(s) == MatchesAll(s, UPPER \cup LOWER \cup DIGIT \cup {"_", "-"}, 3, 30)

PasswordMin == 8
PasswordMax == 128

\* variant: the schema without .regex(/[0-9]/)
PasswordOk_NoDigitRule(p) ==
    /\ Len(p) >= PasswordMin
    /\ Len(p) <= PasswordMax
    /\ HasChar(p, UPPER)
    /\ HasChar(p, LOWER)
    /\ \E i \in 1..Len(p) : p[i] \notin (UPPER \cup LOWER \cup DIGIT)

\* registerSchema.password
PasswordOk(p) ==
    /\ Len(p) >= PasswordMin
    /\ Len(p) <= PasswordMax
    /\ HasChar(p, UPPER)
    /\ HasChar(p, LOWER)
    /\ HasChar(p, DIGIT)
    /\ \E i \in 1..Len(p) : p[i] \notin (UPPER \cup LOWER \cup DIGIT)

\* registerSchema.safeParse(req.body).data
RegisterData(body) ==
    [fullName |-> Trim(body.fullName),
     idNumber |-> ToUpperCase(Trim(body.idNumber)),
     accountNumber |-> Trim(body.accountNumber),
     username |-> Trim(body.username),
     password |-> body.password]

\* registerSchema.safeParse(req.body).success
RegisterSuccess(body) ==
    LET d == RegisterData(body)
    IN /\ Len(d.fullName) >= 2 /\ Len(d.fullName) <= 100 /\ FullNamePattern(d.fullName)
       /\ Len(d.idNumber) >= 6 /\ Len(d.idNumber) <= 20 /\ IdNumberPattern(d.idNumber)
       /\ Len(d.accountNumber) >= 8 /\ Len(d.accountNumber) <= 20
       /\ AccountNumberPattern(d.accountNumber)
       /\ Len(d.username) >= 3 /\ Len(d.username) <= 30 /\ UsernamePattern(d.username)
       /\ PasswordOk(d.password)

\* loginSchema.safeParse(req.body)
LoginData(body) ==
    [username |-> Trim(body.username),
     accountNumber |-> Trim(body.accountNumber),
     password |-> body.password]

LoginSuccess(body) ==
    LET d == LoginData(body)
    IN /\ Len(d.username) >= 3 /\ UsernamePattern(d.username)
       /\ Len(d.accountNumber) >= 8 /\ AccountNumberPattern(d.accountNumber)
       /\ Len(d.password) >= 1

\* `${username}@securbank.internal`
EmailOf(username) == username \o <<"@", "securbank.internal">>

\* ---------------------------------------------------------------- bcrypt
saltRounds == 12
\* bcrypt uses the first 72 bytes of the password and ignores the rest
BcryptMaxBytes == 72

BcryptInput(password) ==
    IF Len(password) > BcryptMaxBytes
    THEN SubSeq(password, 1, BcryptMaxBytes) ELSE password

\* the digest is a one-way function of cost, salt and input; distinct inputs
\* are taken to give distinct digests
Digest(cost, salt, input) == [i \in 1..Len(input) |-> "#" \o input[i]]

\* bcrypt.hash(password, saltRounds) with the salt the library drew:
\* "$2b$" cost "$" salt digest
BcryptHash(password, cost, salt) ==
    <<"$2b$", cost, "$", salt>> \o Digest(cost, salt, BcryptInput(password))

IsBcryptHash(h) == Len(h) >= 4 /\ h[1] = "$2b$" /\ h[3] = "$"

\* bcrypt.compare(password, hash): rehash with the cost and salt of `hash`
BcryptCompare(password, h) ==
    /\ IsBcryptHash(h)
    /\ BcryptHash(password, h[2], h[4]) = h

\* ------------------------------------------------------------- the inputs
Salts == {"saltA", "saltB"}

Alice == <<"a", "l", "i", "c", "e">>
AlicePadded == <<" ", "a", "l", "i", "c", "e", " ">>
Bob == <<"b", "o", "b">>
Usernames == {Alice, AlicePadded, Bob}

Account1 == <<"1", "2", "3", "4", "5", "6", "7", "8">>
Account2 == <<"8", "7", "6", "5", "4", "3", "2", "1">>
AccountNumbers == {Account1, Account2}

TestUser == <<"T", "e", "s", "t", " ", "U", "s", "e", "r">>
IdNumber1 == <<"a", "b", "c", "1", "2", "3", "4", "5", "6">>

\* a 72 character prefix that already satisfies the policy
Prefix72 == [i \in 1..BcryptMaxBytes |->
                CASE i % 4 = 1 -> "A" [] i % 4 = 2 -> "a"
                  [] i % 4 = 3 -> "1" [] OTHER -> "!"]

Strong == <<"S", "t", "r", "0", "n", "g", "!", "P", "a", "s", "s">>
Strong2 == <<"T", "e", "s", "t", "P", "a", "s", "s", "1", "2", "3", "!">>
LongA == Prefix72 \o <<"x">>
LongB == Prefix72 \o <<"y">>
TooShort == <<"A", "a", "1", "!", "a", "a", "a">>
NoUpper == <<"p", "a", "s", "s", "w", "0", "r", "d", "!">>
NoLower == <<"P", "A", "S", "S", "W", "0", "R", "D", "!">>
NoDigit == <<"P", "a", "s", "s", "w", "o", "r", "d", "!">>
NoSymbol == <<"P", "a", "s", "s", "w", "o", "r", "d", "1", "2", "3">>

WeakPasswords == {TooShort, NoUpper, NoLower, NoDigit, NoSymbol}

Passwords == {Strong, Strong2, LongA, LongB} \cup WeakPasswords

Body(u, a, p) ==
    [fullName |-> TestUser, idNumber |-> IdNumber1,
     accountNumber |-> a, username |-> u, password |-> p]

\* register requests: every identity with a strong password, and one identity
\* with each of the other passwords
RegisterBodies ==
    {Body(u, a, Strong) : u \in Usernames, a \in AccountNumbers}
        \cup {Body(Alice, Account1, p) : p \in WeakPasswords \cup {LongA}}

\* login requests: every identity with a right and a wrong password, and one
\* identity with the two long passwords
LoginBodies ==
    [accountNumber : AccountNumbers, username : {Alice, Bob},
     password : {Strong, Strong2}]
        \cup [accountNumber : {Account1}, username : {Alice},
              password : {LongA, LongB}]

NoReq == [pc |-> "idle"]
NoResp == [op |-> "none", status |-> 0]
NoSession == [uid |-> 0]

\* ------------------------------------------------------------------- Init
InitAuth ==
    /\ users = <<>>
    /\ req = [c \in Clients |-> NoReq]
    /\ resp = [c \in Clients |-> NoResp]
    /\ session = [c \in Clients |-> NoSession]
    /\ requests = 0
    /\ lastClient = "none"

\* variant: the existence check looks at the username only
Existing_UsernameOnly(coll, d) ==
    {i \in DOMAIN coll : coll[i].username = d.username}

\* User.findOne({ $or: [{ username }, { email }, { accountNumber }] })
Existing(coll, d) ==
    {i \in DOMAIN coll :
        \/ coll[i].username = d.username
        \/ coll[i].email = EmailOf(d.username)
        \/ coll[i].accountNumber = d.accountNumber}

\* the unique indexes of UserSchema: username and email
DuplicateKey(coll, doc) ==
    \E i \in DOMAIN coll :
        \/ coll[i].username = doc.username
        \/ coll[i].email = doc.email

\* variant: the password itself is stored
NewUser_Plaintext(d, passwordHash) ==
    [username |-> d.username,
     email |-> EmailOf(d.username),
     fullName |-> d.fullName,
     idNumber |-> d.idNumber,
     accountNumber |-> d.accountNumber,
     passwordHash |-> d.password]

\* the document User.create receives
NewUser(d, passwordHash) ==
    [username |-> d.username,
     email |-> EmailOf(d.username),
     fullName |-> d.fullName,
     idNumber |-> d.idNumber,
     accountNumber |-> d.accountNumber,
     passwordHash |-> passwordHash]

\* POST /register up to `await User.findOne`: parse, then the existence check
register(c, body) ==
    /\ req[c].pc = "idle"
    /\ requests < MaxRequests
    /\ requests' = requests + 1
    /\ lastClient' = c
    /\ IF ~RegisterSuccess(body)
       THEN /\ resp' = [resp EXCEPT ![c] =
                  [op |-> "register", status |-> 400, error |-> "Invalid input",
                   body |-> body]]
            /\ req' = [req EXCEPT ![c] = [pc |-> "idle"]]
       ELSE IF Existing(users, RegisterData(body)) # {}
       THEN /\ resp' = [resp EXCEPT ![c] =
                  [op |-> "register", status |-> 409, error |-> "User already exists",
                   body |-> body]]
            /\ req' = [req EXCEPT ![c] = [pc |-> "idle"]]
       ELSE /\ req' = [req EXCEPT ![c] =
                  [pc |-> "create", body |-> body, data |-> RegisterData(body)]]
            /\ UNCHANGED resp
    /\ UNCHANGED <<users, session>>
    /\ UNCHANGED gateVars
    /\ UNCHANGED flowVars

\* POST /register from bcrypt.hash on: hash, User.create, session.regenerate
registerCreate(c, salt, regenerateErr) ==
    /\ req[c].pc = "create"
    /\ LET d == req[c].data
           doc == NewUser(d, BcryptHash(d.password, saltRounds, salt))
       IN IF DuplicateKey(users, doc)
          THEN \* User.create rejects: catch (err)
               /\ resp' = [resp EXCEPT ![c] =
                     [op |-> "register", status |-> 500, error |-> "Server error",
                      body |-> req[c].body]]
               /\ UNCHANGED <<users, session>>
          ELSE /\ users' = Append(users, doc)
               /\ IF regenerateErr
                  THEN /\ resp' = [resp EXCEPT ![c] =
                             [op |-> "register", status |-> 500,
                              error |-> "Session error", body |-> req[c].body]]
                       /\ session' = [session EXCEPT ![c] = NoSession]
                  ELSE /\ resp' = [resp EXCEPT ![c] =
                             [op |-> "register", status |-> 201, error |-> "",
                              body |-> req[c].body, uid |-> Len(users) + 1]]
                       /\ session' = [session EXCEPT ![c] = [uid |-> Len(users) + 1]]
    /\ req' = [req EXCEPT ![c] = [pc |-> "idle"]]
    /\ UNCHANGED <<requests, lastClient>>
    /\ UNCHANGED gateVars
    /\ UNCHANGED flowVars

\* User.findOne({ username, accountNumber })
FindUser(coll, d) ==
    {i \in DOMAIN coll :
        coll[i].username = d.username /\ coll[i].accountNumber = d.accountNumber}

First(S) == CHOOSE i \in S : \A j \in S : i <= j

\* POST /login handler
login(c, body, regenerateErr) ==
    /\ req[c].pc = "idle"
    /\ requests < MaxRequests
    /\ requests' = requests + 1
    /\ lastClient' = c
    /\ LET d == LoginData(body)
           found == FindUser(users, d)
       IN IF ~LoginSuccess(body)
          THEN /\ resp' = [resp EXCEPT ![c] =
                     [op |-> "login", stored |-> Len(users), status |-> 400, error |-> "Invalid input",
                      body |-> body, compared |-> FALSE]]
               /\ UNCHANGED session
          ELSE IF found = {}
          THEN /\ resp' = [resp EXCEPT ![c] =
                     [op |-> "login", stored |-> Len(users), status |-> 401, error |-> "Invalid credentials",
                      body |-> body, compared |-> FALSE]]
               /\ UNCHANGED session
          ELSE IF ~BcryptCompare(d.password, users[First(found)].passwordHash)
          THEN /\ resp' = [resp EXCEPT ![c] =
                     [op |-> "login", stored |-> Len(users), status |-> 401, error |-> "Invalid credentials",
                      body |-> body, compared |-> FALSE]]
               /\ UNCHANGED session
          ELSE IF regenerateErr
          THEN /\ resp' = [resp EXCEPT ![c] =
                     [op |-> "login", stored |-> Len(users), status |-> 500, error |-> "Session error",
                      body |-> body, compared |-> TRUE]]
               /\ session' = [session EXCEPT ![c] = NoSession]
          ELSE /\ resp' = [resp EXCEPT ![c] =
                     [op |-> "login", stored |-> Len(users), status |-> 200, error |-> "",
                      body |-> body, compared |-> TRUE]]
               /\ session' = [session EXCEPT ![c] = [uid |-> First(found)]]
    /\ UNCHANGED <<users, req>>
    /\ UNCHANGED gateVars
    /\ UNCHANGED flowVars

NextAuth ==
    \/ \E c \in Clients, body \in RegisterBodies : register(c, body)
    \/ \E c \in Clients, salt \in Salts, err \in BOOLEAN : registerCreate(c, salt, err)
    \/ \E c \in Clients, body \in LoginBodies, err \in BOOLEAN : login(c, body, err)


\* ======================================================= request admission
\* the middleware every /api/auth and /api/transactions request passes
\* before its route handler: global rate limit, session, csrf, authLimiter,
\* bruteForceProtection

\* ------------------------------------------------------ express-rate-limit
windowMs == 60 * 1000
AuthLimit == 20
GlobalLimit == 100

NoWindow == [totalHits |-> 0, resetTime |-> 0]

\* MemoryStore.increment: a client's window opens with its first hit and
\* lasts windowMs; every request counts, the refused ones too
Increment(w, t) ==
    IF w.resetTime <= t
    THEN [totalHits |-> 1, resetTime |-> t + windowMs]
    ELSE [totalHits |-> w.totalHits + 1, resetTime |-> w.resetTime]

\* ------------------------------------------------------------------ csurf
NoSecret == 0
Secrets == {1, 2}
NoToken == <<>>

\* tokens.create(secret)
CreateToken(secret) == <<"csrf", secret>>

\* tokens.verify(secret, token)
VerifyToken(secret, token) == secret # NoSecret /\ token = CreateToken(secret)

IgnoreMethods == {"GET", "HEAD", "OPTIONS"}

\* what a request carries for csurf: the _csrf cookie and the token header
Csrf(secret, token) == [secret |-> secret, token |-> token]

\* variant: any token in the header is accepted
csrfProtection_AnyToken(method, csrf) ==
    method \in IgnoreMethods \/ csrf.token # NoToken

\* csurf({ cookie }): next() or 403 'invalid csrf token'
csrfProtection(method, csrf) ==
    method \in IgnoreMethods \/ VerifyToken(csrf.secret, csrf.token)

\* -------------------------------------------------------- express-session
maxAge == 1000 * 60 * 60
NoSid == 0
NoBody == <<>>

\* variant: the store keeps the session
Destroy_Nothing(st, sid) == st

\* store.destroy(sid)
Destroy(st, sid) == [s \in DOMAIN st \ {sid} |-> st[s]]

\* store.get when the request arrives: an expired session is dropped
Load(st, sid, t) ==
    IF sid \in DOMAIN st /\ st[sid].expires <= t THEN Destroy(st, sid) ELSE st

\* store.touch when the response ends: the expiry of a loaded session restarts
Touch(st, sid, t) ==
    IF sid \in DOMAIN st THEN [st EXCEPT ![sid].expires = t + maxAge] ELSE st

\* variant: the identity is written into the session the client presented
Regenerate_KeepId(st, sid, new, uid, role, t) ==
    LET id == IF sid \in DOMAIN st THEN sid ELSE new
    IN (id :> [uid |-> uid, role |-> role, expires |-> t + maxAge,
            created |-> t]) @@ Destroy(st, sid)

\* variant: the new session inherits the role of the one it replaces
Regenerate_KeepRole(st, sid, new, uid, role, t) ==
    (new :> [uid |-> uid,
             role |-> IF sid \in DOMAIN st /\ st[sid].role # "none"
                      THEN st[sid].role ELSE role,
             expires |-> t + maxAge,
             created |-> t]) @@ Destroy(st, sid)

\* req.session.regenerate, the handler's writes to the new session, and the
\* save when the response ends; `created` notes when, for the reader of a trace
Regenerate(st, sid, new, uid, role, t) ==
    (new :> [uid |-> uid, role |-> role, expires |-> t + maxAge,
             created |-> t]) @@ Destroy(st, sid)

\* ---------------------------------------------------- bruteForceProtection
MaxFailedAttempts == 5
LockoutWindow == 15 * 60 * 1000

NoFailures == [count |-> 0, last |-> 0]

BruteOf(b, key) == IF key \in DOMAIN b THEN b[key] ELSE NoFailures

\* variant: a lockout that never ends
Locked_Forever(b, key, t) ==
    BruteOf(b, key).count >= MaxFailedAttempts

\* bruteForceProtection.prevent: 429 while the identity is locked out
Locked(b, key, t) ==
    /\ BruteOf(b, key).count >= MaxFailedAttempts
    /\ t - BruteOf(b, key).last < LockoutWindow

\* variant: every attempt counts and no answer resets the count
Record_EveryAttempt(b, key, status, t) ==
    LET f == BruteOf(b, key)
    IN (key :> [count |-> IF f.count > 0 /\ t - f.last >= LockoutWindow
                          THEN 1 ELSE f.count + 1,
                last |-> t]) @@ b

\* lockout bookkeeping when the handler has answered
Record(b, key, status, t) ==
    LET f == BruteOf(b, key)
    IN IF status = 401
       THEN (key :> [count |-> IF f.count > 0 /\ t - f.last >= LockoutWindow
                               THEN 1 ELSE f.count + 1,
                     last |-> t]) @@ b
       ELSE IF status = 200
       THEN [k \in DOMAIN b \ {key} |-> b[k]]
       ELSE b

\* what a client watching the answers knows of an identity: the times of its
\* latest consecutive 401 answers and the clients that received them
NoFails == [times |-> <<>>, from |-> {}]

FailsIn(f, key) == IF key \in DOMAIN f THEN f[key] ELSE NoFails

FailsOf(key) == FailsIn(fails, key)

Latest(s, n) == IF Len(s) > n THEN SubSeq(s, Len(s) - n + 1, Len(s)) ELSE s

Observe(c, key, status) ==
    IF status = 401
    THEN (key :> [times |-> Latest(Append(FailsOf(key).times, clock),
                                   MaxFailedAttempts),
                  from |-> FailsOf(key).from \cup {c}]) @@ fails
    ELSE IF status = 200
    THEN [k \in DOMAIN fails \ {key} |-> fails[k]]
    ELSE fails

InitGate ==
    /\ clock = 0
    /\ store = <<>>
    /\ nextSid = 1
    /\ hits = [c \in Clients |-> NoWindow]
    /\ globalHits = [c \in Clients |-> NoWindow]
    /\ brute = <<>>
    /\ fails = <<>>
    /\ cookie = [c \in Clients |-> NoSid]
    /\ reply = NoResp


\* ----------------------------------------------------------- the pipeline
ClearCookie == -1

\* employeeLoginSchema.safeParse(req.body)
EmployeeLoginData(body) ==
    [employeeNumber |-> Trim(body.employeeNumber), password |-> body.password]

EmployeeLoginSuccess(body) ==
    /\ Len(EmployeeLoginData(body).employeeNumber) >= 1
    /\ Len(body.password) >= 1

EmployeeKey(body) == <<EmployeeLoginData(body).employeeNumber>>

\* variant: the lockout is kept per client address
LoginKey_ByAddress(c, body) == <<c>>

\* the credential identity a login request names, for the lockout
LoginKey(c, body) == <<LoginData(body).username, LoginData(body).accountNumber>>

\* the key bruteForceProtection files a request to a login route under
KeyOf(c, op, body) ==
    IF op = "login" THEN LoginKey(c, body) ELSE EmployeeKey(body)

\* the identity a request to a login route names, as its sender knows it
IdentityOf(op, body) ==
    IF op = "login"
    THEN <<Trim(body.username), Trim(body.accountNumber)>>
    ELSE <<Trim(body.employeeNumber)>>

\* a response: who refused or answered it (`by`), the session id and the
\* csrf cookie and token the request presented (`sid`, `csrf`), the Set-Cookie
\* for "sid" (`setCookie`), the role of the session the request presented
\* (`had`) and, for a login route, the failures known for its identity when
\* the request came (`before`)
Answer(c, op, by, status, error, sid, csrf, setCookie, body, uid, role) ==
    [client |-> c, op |-> op, by |-> by, status |-> status, error |-> error,
     sid |-> sid, csrf |-> csrf, setCookie |-> setCookie, body |-> body, uid |-> uid,
     role |-> role,
     had |-> IF sid \in DOMAIN Load(store, sid, clock) THEN store[sid].role
             ELSE "none",
     before |-> IF op \in {"login", "employeeLogin"}
                THEN FailsOf(IdentityOf(op, body)) ELSE NoFails]

\* the response goes out; the browser stores or clears the cookie it sets
Respond(c, answer) ==
    /\ reply' = answer
    /\ cookie' = IF answer.setCookie = NoSid THEN cookie
                 ELSE [cookie EXCEPT ![c] =
                          IF answer.setCookie = ClearCookie THEN NoSid
                          ELSE answer.setCookie]

\* variant: the router's limiter runs before csurf
Stage_LimiterFirst(c, method, csrf, limited) ==
    IF Increment(globalHits[c], clock).totalHits > GlobalLimit THEN "rateLimit"
    ELSE IF limited /\ Increment(hits[c], clock).totalHits > AuthLimit THEN "authLimiter"
    ELSE IF ~csrfProtection(method, csrf) THEN "csrf"
    ELSE "next"

\* variant: no route carries authLimiter
Stage_NoAuthLimiter(c, method, csrf, limited) ==
    IF Increment(globalHits[c], clock).totalHits > GlobalLimit THEN "rateLimit"
    ELSE IF ~csrfProtection(method, csrf) THEN "csrf"
    ELSE "next"

\* the middleware in front of a route handler, in the order index.ts and the
\* router install it; `limited` tells whether the route carries authLimiter
Stage(c, method, csrf, limited) ==
    IF Increment(globalHits[c], clock).totalHits > GlobalLimit THEN "rateLimit"
    ELSE IF ~csrfProtection(method, csrf) THEN "csrf"
    ELSE IF limited /\ Increment(hits[c], clock).totalHits > AuthLimit THEN "authLimiter"
    ELSE "next"

\* the counters a request moves on its way
Count(c, stage, limited) ==
    /\ globalHits' = [globalHits EXCEPT ![c] = Increment(@, clock)]
    /\ hits' = IF limited /\ stage \in {"authLimiter", "next"}
               THEN [hits EXCEPT ![c] = Increment(@, clock)]
               ELSE hits

\* the session a request runs with: store.get of the presented id
Session(sid) ==
    IF sid \in DOMAIN Load(store, sid, clock)
    THEN store[sid]
    ELSE [uid |-> 0, role |-> "none", expires |-> 0]

\* the store after a response that leaves the session as it was loaded
Unmodified(sid) == Touch(Load(store, sid, clock), sid, clock)

\* a request stopped by the middleware in front of the handler
Refuse(c, op, stage, sid, csrf, body) ==
    /\ stage # "next"
    /\ Respond(c, IF stage = "csrf"
                  THEN Answer(c, op, stage, 403, "invalid csrf token",
                              sid, csrf, NoSid, body, 0, "none")
                  ELSE Answer(c, op, stage, 429,
                              "Too many requests, please try again later.",
                              sid, csrf, NoSid, body, 0, "none"))
    /\ store' = IF stage = "rateLimit" THEN store ELSE Unmodified(sid)
    /\ UNCHANGED <<users, nextSid, brute, fails, clock>>
    /\ UNCHANGED <<req, resp, session, lastClient>>
    /\ UNCHANGED flowVars

\* the end of a handler that answered `status` without writing the session
Plain(c, op, status, error, sid, csrf, body) ==
    /\ Respond(c, Answer(c, op, "handler", status, error, sid, csrf, NoSid, body, 0, "none"))
    /\ store' = Unmodified(sid)
    /\ UNCHANGED nextSid

\* the end of a handler that called req.session.regenerate for user `uid`
Rotate(c, op, status, sid, csrf, body, uid, role, regenerateErr) ==
    IF regenerateErr
    THEN /\ Respond(c, Answer(c, op, "handler", 500, "Session error",
                              sid, csrf, NoSid, body, 0, "none"))
         /\ store' = Load(store, sid, clock)
         /\ UNCHANGED nextSid
    ELSE /\ Respond(c, Answer(c, op, "handler", status, "", sid, csrf, nextSid,
                              body, uid, role))
         /\ store' = Regenerate(Load(store, sid, clock), sid, nextSid, uid, role, clock)
         /\ nextSid' = nextSid + 1

\* ------------------------------------------------------ POST /register
postRegister(c, sid, csrf, body, salt, regenerateErr) ==
    LET stage == Stage(c, "POST", csrf, TRUE)
        d == RegisterData(body)
        doc == NewUser(d, BcryptHash(d.password, saltRounds, salt))
    IN /\ Count(c, stage, TRUE)
       /\ IF stage # "next"
          THEN Refuse(c, "register", stage, sid, csrf, body)
          ELSE /\ IF ~RegisterSuccess(body)
                  THEN /\ Plain(c, "register", 400, "Invalid input", sid, csrf, body)
                       /\ UNCHANGED users
                  ELSE IF Existing(users, d) # {}
                  THEN /\ Plain(c, "register", 409, "User already exists", sid, csrf, body)
                       /\ UNCHANGED users
                  ELSE IF DuplicateKey(users, doc)
                  THEN /\ Plain(c, "register", 500, "Server error", sid, csrf, body)
                       /\ UNCHANGED users
                  ELSE /\ users' = Append(users, doc)
                       /\ Rotate(c, "register", 201, sid, csrf, body, Len(users) + 1,
                                 "none", regenerateErr)
               /\ UNCHANGED <<brute, fails, clock>>
               /\ UNCHANGED <<req, resp, session, lastClient>>
               /\ UNCHANGED flowVars

\* --------------------------------------------------------- POST /login
\* variant: an unknown user is told so
LoginStatus_NotFound(coll, body) ==
    LET d == LoginData(body)
        found == FindUser(coll, d)
    IN IF ~LoginSuccess(body) THEN 400
       ELSE IF found = {} THEN 404
       ELSE IF ~BcryptCompare(d.password, coll[First(found)].passwordHash) THEN 401
       ELSE 200

\* the status the handler reaches before it touches the session
LoginStatus(coll, body) ==
    LET d == LoginData(body)
        found == FindUser(coll, d)
    IN IF ~LoginSuccess(body) THEN 400
       ELSE IF found = {} THEN 401
       ELSE IF ~BcryptCompare(d.password, coll[First(found)].passwordHash) THEN 401
       ELSE 200

\* variant: the route without bruteForceProtection.prevent
LoginGuards_NoPrevent == <<"authLimiter">>

\* router.post("/login", authLimiter, bruteForceProtection.prevent, handler)
LoginGuards == <<"authLimiter", "bruteForceProtection.prevent">>

Prevents(guards) == "bruteForceProtection.prevent" \in Range(guards)

\* a login route behind its guards: `key` is the identity the request names,
\* `status` what the handler finds, `uid` the user it found
Authenticate(c, op, guards, sid, csrf, body, key, status, uid, role, regenerateErr) ==
    IF Prevents(guards) /\ Locked(brute, key, clock)
    THEN /\ Respond(c, Answer(c, op, "bruteForce", 429, "Too many failed attempts",
                              sid, csrf, NoSid, body, 0, "none"))
         /\ store' = Unmodified(sid)
         /\ UNCHANGED <<nextSid, brute, fails>>
    ELSE /\ IF status = 400
            THEN Plain(c, op, 400, "Invalid input", sid, csrf, body)
            ELSE IF status = 401
            THEN Plain(c, op, 401, "Invalid credentials", sid, csrf, body)
            ELSE Rotate(c, op, 200, sid, csrf, body, uid, role, regenerateErr)
         /\ brute' = IF Prevents(guards)
                     THEN Record(brute, key, reply'.status, clock) ELSE brute
         /\ fails' = Observe(c, IdentityOf(op, body), reply'.status)

postLogin(c, sid, csrf, body, regenerateErr) ==
    LET stage == Stage(c, "POST", csrf, TRUE)
        found == FindUser(users, LoginData(body))
    IN /\ Count(c, stage, TRUE)
       /\ IF stage # "next"
          THEN Refuse(c, "login", stage, sid, csrf, body)
          ELSE /\ Authenticate(c, "login", LoginGuards, sid, csrf, body,
                               KeyOf(c, "login", body),
                               LoginStatus(users, body),
                               IF found = {} THEN 0 ELSE First(found),
                               "none", regenerateErr)
               /\ UNCHANGED <<users, clock>>
               /\ UNCHANGED <<req, resp, session, lastClient>>
               /\ UNCHANGED flowVars

\* ------------------------------------------------ POST /employee/login
\* User.findOne({ $or: [{ username: employeeNumber }, { idNumber: employeeNumber }] })
FindEmployee(coll, employeeNumber) ==
    {i \in DOMAIN coll :
        coll[i].username = employeeNumber \/ coll[i].idNumber = employeeNumber}

\* the status the handler reaches before it touches the session
EmployeeLoginStatus(coll, body) ==
    LET d == EmployeeLoginData(body)
        found == FindEmployee(coll, d.employeeNumber)
    IN IF ~EmployeeLoginSuccess(body) THEN 400
       ELSE IF found = {} THEN 401
       ELSE IF ~BcryptCompare(d.password, coll[First(found)].passwordHash) THEN 401
       ELSE 200

postEmployeeLogin(c, sid, csrf, body, regenerateErr) ==
    LET stage == Stage(c, "POST", csrf, TRUE)
        found == FindEmployee(users, EmployeeLoginData(body).employeeNumber)
    IN /\ Count(c, stage, TRUE)
       /\ IF stage # "next"
          THEN Refuse(c, "employeeLogin", stage, sid, csrf, body)
          ELSE /\ Authenticate(c, "employeeLogin", LoginGuards, sid, csrf, body,
                               KeyOf(c, "employeeLogin", body),
                               EmployeeLoginStatus(users, body),
                               IF found = {} THEN 0 ELSE First(found),
                               "employee", regenerateErr)
               /\ UNCHANGED <<users, clock>>
               /\ UNCHANGED <<req, resp, session, lastClient>>
               /\ UNCHANGED flowVars

\* -------------------------------------------------------- POST /logout
postLogout(c, sid, csrf, destroyErr) ==
    LET stage == Stage(c, "POST", csrf, TRUE)
    IN /\ Count(c, stage, TRUE)
       /\ IF stage # "next"
          THEN Refuse(c, "logout", stage, sid, csrf, NoBody)
          ELSE /\ IF destroyErr
                  THEN /\ Respond(c, Answer(c, "logout", "handler", 500,
                                            "Failed to logout", sid, csrf, NoSid, NoBody,
                                            0, "none"))
                       /\ store' = Load(store, sid, clock)
                  ELSE /\ Respond(c, Answer(c, "logout", "handler", 200, "", sid, csrf,
                                            ClearCookie, NoBody, 0, "none"))
                       /\ store' = Destroy(store, sid)
               /\ UNCHANGED <<users, nextSid, brute, fails, clock>>
               /\ UNCHANGED <<req, resp, session, lastClient>>
               /\ UNCHANGED flowVars

\* -------------------------------------------------------------- GET /me
getMe(c, sid) ==
    LET csrf == Csrf(NoSecret, NoToken)
        stage == Stage(c, "GET", csrf, TRUE)
        uid == Session(sid).uid
        role == IF Session(sid).role = "none" THEN "customer" ELSE Session(sid).role
    IN /\ Count(c, stage, TRUE)
       /\ IF stage # "next"
          THEN Refuse(c, "me", stage, sid, csrf, NoBody)
          ELSE /\ IF uid = 0 \/ uid \notin DOMAIN users
                  THEN Plain(c, "me", 401, "Unauthorized", sid, csrf, NoBody)
                  ELSE /\ Respond(c, Answer(c, "me", "handler", 200, "", sid, csrf, NoSid,
                                            NoBody, uid, role))
                       /\ store' = Unmodified(sid)
                       /\ UNCHANGED nextSid
               /\ UNCHANGED <<users, brute, fails, clock>>
               /\ UNCHANGED <<req, resp, session, lastClient>>
               /\ UNCHANGED flowVars

\* ------------------------------------------------ POST /api/transactions
\* mounted behind csrfProtection; the route asks for a session and stores a
\* pending transaction of the caller
postTransaction(c, sid, csrf) ==
    LET stage == Stage(c, "POST", csrf, FALSE)
    IN /\ Count(c, stage, FALSE)
       /\ IF stage # "next"
          THEN Refuse(c, "transaction", stage, sid, csrf, NoBody)
          ELSE /\ IF Session(sid).uid = 0
                  THEN /\ Plain(c, "transaction", 401, "Unauthorized", sid, csrf, NoBody)
                       /\ UNCHANGED dbTransactions
                  ELSE /\ Len(dbTransactions) < MaxPayments
                       /\ Plain(c, "transaction", 201, "", sid, csrf, NoBody)
                       /\ dbTransactions' = Append(dbTransactions,
                             [customerId |-> Session(sid).uid, status |-> "pending",
                              verifiedBy |-> NULL, verifiedAt |-> NULL_AT])
               /\ UNCHANGED <<users, brute, fails, clock>>
               /\ UNCHANGED <<req, resp, session, lastClient>>
               /\ UNCHANGED <<loginVars, now, ops, dbPayments, payments, employeeData,
                              transactions, selectedTransactions, isLoading,
                              call, result>>

\* ------------------------------------------------------ GET /api/health
getHealth(c, sid) ==
    LET csrf == Csrf(NoSecret, NoToken)
        stage == Stage(c, "GET", csrf, FALSE)
    IN /\ Count(c, stage, FALSE)
       /\ IF stage # "next"
          THEN Refuse(c, "health", stage, sid, csrf, NoBody)
          ELSE /\ Plain(c, "health", 200, "", sid, csrf, NoBody)
               /\ UNCHANGED <<users, brute, fails, clock>>
               /\ UNCHANGED <<req, resp, session, lastClient>>
               /\ UNCHANGED flowVars

\* ------------------------------------------- a database call that rejects
\* what becomes of a promise that rejects in an async handler without
\* try/catch: express 4 never answers, express 5 hands the error to its
\* default handler, which sends the stack unless NODE_ENV is production
Rejections == {"no response", "stack", "Internal Server Error"}

\* GET /me when User.findById rejects
Unhandled(c, op, sid, csrf, outcome) ==
    IF outcome = "no response"
    THEN /\ Respond(c, Answer(c, op, "unhandled", 0, "", sid, csrf, NoSid,
                              NoBody, 0, "none"))
         /\ store' = Load(store, sid, clock)
    ELSE /\ Respond(c, Answer(c, op, "unhandled", 500, outcome, sid, csrf, NoSid,
                              NoBody, 0, "none"))
         /\ store' = Unmodified(sid)

\* the handler of `op` has parsed its input and its database call (findOne,
\* create, findById) rejects
databaseFails(c, op, sid, csrf, body, outcome) ==
    LET stage == Stage(c, IF op = "me" THEN "GET" ELSE "POST", csrf, TRUE)
    IN /\ stage = "next"
       /\ Count(c, stage, TRUE)
       /\ CASE op = "register" -> RegisterSuccess(body)
            [] op = "login" ->
                 LoginSuccess(body) /\ ~Locked(brute, KeyOf(c, op, body), clock)
            [] op = "employeeLogin" ->
                 EmployeeLoginSuccess(body) /\ ~Locked(brute, KeyOf(c, op, body), clock)
            [] op = "me" -> Session(sid).uid # 0
       /\ IF op = "me"
          THEN Unhandled(c, op, sid, csrf, outcome)
          ELSE /\ Respond(c, Answer(c, op, "catch", 500, "Server error", sid, csrf,
                                    NoSid, body, 0, "none"))
               /\ store' = Unmodified(sid)
       /\ UNCHANGED <<users, nextSid, brute, fails, clock>>
       /\ UNCHANGED <<req, resp, session, lastClient>>
       /\ UNCHANGED flowVars

\* the end of an employee route for a caller the route does not admit
Denied(c, op, sid, csrf) ==
    /\ IF Session(sid).uid = 0
       THEN Plain(c, op, 401, "Unauthorized", sid, csrf, NoBody)
       ELSE Plain(c, op, 403, "Forbidden", sid, csrf, NoBody)
    /\ UNCHANGED dbTransactions

\* ----------------------------------------- POST /api/transactions/verify
\* the route asks for a session with role employee
postVerify(c, sid, csrf, id) ==
    LET stage == Stage(c, "POST", csrf, FALSE)
    IN /\ Count(c, stage, FALSE)
       /\ IF stage # "next"
          THEN Refuse(c, "verify", stage, sid, csrf, NoBody)
          ELSE /\ IF Session(sid).role # "employee"
                  THEN Denied(c, "verify", sid, csrf)
                  ELSE IF id \notin DOMAIN dbTransactions
                  THEN /\ Plain(c, "verify", 404, "Not found", sid, csrf, NoBody)
                       /\ UNCHANGED dbTransactions
                  ELSE /\ Plain(c, "verify", VerifyStatus(dbTransactions[id]),
                                "", sid, csrf, NoBody)
                       /\ dbTransactions' = [dbTransactions EXCEPT ![id] =
                             VerifyDoc(@, Session(sid).uid, now)]
               /\ UNCHANGED <<users, brute, fails, clock>>
               /\ UNCHANGED <<req, resp, session, lastClient>>
               /\ UNCHANGED <<loginVars, now, ops, dbPayments, payments, employeeData,
                              transactions, selectedTransactions, isLoading,
                              call, result>>

\* --------------------------------- POST /api/transactions/submit-to-swift
postSubmitToSwift(c, sid, csrf, ids) ==
    LET stage == Stage(c, "POST", csrf, FALSE)
    IN /\ Count(c, stage, FALSE)
       /\ IF stage # "next"
          THEN Refuse(c, "submitToSwift", stage, sid, csrf, NoBody)
          ELSE /\ IF Session(sid).role # "employee"
                  THEN Denied(c, "submitToSwift", sid, csrf)
                  ELSE /\ Plain(c, "submitToSwift", 200, "", sid, csrf, NoBody)
                       /\ dbTransactions' = SubmitDocs(dbTransactions, ids)
               /\ UNCHANGED <<users, brute, fails, clock>>
               /\ UNCHANGED <<req, resp, session, lastClient>>
               /\ UNCHANGED <<loginVars, now, ops, dbPayments, payments, employeeData,
                              transactions, selectedTransactions, isLoading,
                              call, result>>

\* time passes on the server
Tick(d) ==
    /\ clock' = clock + d
    /\ UNCHANGED <<users, req, resp, session, requests, lastClient,
                   store, nextSid, hits, globalHits, brute, fails, cookie, reply>>
    /\ UNCHANGED flowVars

\* ------------------------------------------------- the requests that arrive
\* a token fetched from GET /api/csrf-token together with its _csrf cookie
ValidCsrf == Csrf(1, CreateToken(1))

\* no token, a token made for another secret, a token without the cookie
BadCsrf == {Csrf(NoSecret, NoToken), Csrf(1, NoToken), Csrf(1, CreateToken(2)),
            Csrf(NoSecret, CreateToken(1))}

\* the customer that registers
GateRegisterBodies == {Body(Alice, Account1, Strong)}

Credentials(u, a, p) == [username |-> u, accountNumber |-> a, password |-> p]

\* alice with her password and with a wrong one, and bob, who has no account
GateLoginBodies ==
    {Credentials(Alice, Account1, Strong), Credentials(Alice, Account1, Strong2),
     Credentials(Bob, Account2, Strong2)}

EmployeeCredentials(n, p) == [employeeNumber |-> n, password |-> p]

\* a customer's username and ID number presented as an employee number
EmployeeLoginBodies ==
    {EmployeeCredentials(Alice, Strong),
     EmployeeCredentials(ToUpperCase(IdNumber1), Strong)}

\* the session ids a request can present: none, or one the server has issued
Sids == 0..(nextSid - 1)

MaxLockoutRequests == 7
MaxLockoutTicks == 1

\* lockout: a registration and logins from the browser of client1, while
\* time passes
NextLockout ==
    \/ /\ requests < MaxLockoutRequests
       /\ requests' = requests + 1
       /\ \/ \E body \in GateRegisterBodies :
                postRegister("client1", cookie["client1"], ValidCsrf, body,
                             "saltA", FALSE)
          \/ \E body \in GateLoginBodies :
                postLogin("client1", cookie["client1"], ValidCsrf, body, FALSE)
    \/ /\ clock < MaxLockoutTicks * LockoutWindow
       /\ Tick(LockoutWindow)

MaxStuffingRequests == 7

\* credential stuffing: a registration and logins from the browsers of two
\* clients
NextStuffing ==
    /\ requests < MaxStuffingRequests
    /\ requests' = requests + 1
    /\ \/ \E body \in GateRegisterBodies :
             postRegister("client1", cookie["client1"], ValidCsrf, body,
                          "saltA", FALSE)
       \/ \E c \in Clients, body \in GateLoginBodies :
             postLogin(c, cookie[c], ValidCsrf, body, FALSE)

MaxLimitRequests == 21
MaxLimitTicks == 1
MaxOtherRequests == 1

\* the request budget: client1 sends to every /api/auth route, client2 asks
\* who it is a few times
NextLimit ==
    \/ /\ UNCHANGED requests
       /\ hits["client1"].totalHits < MaxLimitRequests
       /\ \E c \in {"client1"} :
            \/ postRegister(c, cookie[c], ValidCsrf, Body(Alice, Account1, Strong),
                            "saltA", FALSE)
            \/ postLogin(c, cookie[c], ValidCsrf,
                         Credentials(Alice, Account1, Strong2), FALSE)
            \/ postEmployeeLogin(c, cookie[c], ValidCsrf,
                                 EmployeeCredentials(<<>>, Strong2), FALSE)
            \/ postLogout(c, cookie[c], ValidCsrf, FALSE)
            \/ getMe(c, cookie[c])
    \/ /\ UNCHANGED requests
       /\ hits["client2"].totalHits < MaxOtherRequests
       /\ getMe("client2", cookie["client2"])
    \/ /\ clock < MaxLimitTicks * windowMs
       /\ Tick(windowMs)

MaxCsrfRequests == 2
MaxCsrfTicks == 2

\* csrf: every state-changing route, with and without a valid token,
\* presenting any session id the server has issued, while time passes
NextCsrf ==
    \/ /\ requests < MaxCsrfRequests
       /\ requests' = requests + 1
       /\ \E c \in Clients, sid \in Sids, csrf \in {ValidCsrf} \cup BadCsrf :
             \/ postRegister(c, sid, csrf, Body(Alice, Account1, Strong), "saltA", FALSE)
             \/ postLogin(c, sid, csrf, Credentials(Alice, Account1, Strong), FALSE)
             \/ postEmployeeLogin(c, sid, csrf, EmployeeCredentials(Alice, Strong), FALSE)
             \/ postLogout(c, sid, csrf, FALSE)
             \/ postTransaction(c, sid, csrf)
    \/ /\ clock < MaxCsrfTicks * (maxAge \div 2)
       /\ Tick(maxAge \div 2)

MaxSessionRequests == 3
MaxSessionTicks == 2

\* sessions: every /api/auth route, presenting any session id the server has
\* issued, while the session store works or fails
NextSession ==
    \/ /\ requests < MaxSessionRequests
       /\ requests' = requests + 1
       /\ \E c \in {"client1"}, sid \in Sids :
             \/ \E err \in BOOLEAN :
                   postRegister(c, sid, ValidCsrf, Body(Alice, Account1, Strong),
                                "saltA", err)
             \/ \E err \in BOOLEAN :
                   postLogin(c, sid, ValidCsrf, Credentials(Alice, Account1, Strong),
                             err)
             \/ \E body \in EmployeeLoginBodies, err \in BOOLEAN :
                   postEmployeeLogin(c, sid, ValidCsrf, body, err)
             \/ \E err \in BOOLEAN : postLogout(c, sid, ValidCsrf, err)
             \/ getMe(c, sid)
             \/ \E op \in {"register", "login", "employeeLogin"} :
                   databaseFails(c, op, sid, ValidCsrf,
                                 CASE op = "register" -> Body(Alice, Account1, Strong)
                                   [] op = "login" -> Credentials(Alice, Account1, Strong)
                                   [] op = "employeeLogin" ->
                                        EmployeeCredentials(Alice, Strong),
                                 "Server error")
             \/ \E outcome \in Rejections :
                   databaseFails(c, "me", sid, Csrf(NoSecret, NoToken), NoBody,
                                 outcome)
    \/ /\ clock < MaxSessionTicks * (maxAge \div 2)
       /\ Tick(maxAge \div 2)

MaxGlobalRequests == 102
MaxGlobalTicks == 1

\* the global limiter: one client asks for /api/health and /api/auth/me
NextGlobal ==
    \/ /\ requests < MaxGlobalRequests
       /\ requests' = requests + 1
       /\ \/ getHealth("client1", cookie["client1"])
          \/ /\ hits["client1"].totalHits < 1
             /\ getMe("client1", cookie["client1"])
    \/ /\ clock < MaxGlobalTicks * windowMs
       /\ UNCHANGED requests
       /\ Tick(windowMs)

MaxOrderRequests == 102
MaxOrderForged == 1

\* admission: one client sends logins for alice with a wrong password, with
\* an account number loginSchema refuses, and without a csrf token
NextOrder ==
    /\ requests < MaxOrderRequests
    /\ requests' = requests + 1
    /\ \E c \in {"client1"} :
          \/ \E body \in {Credentials(Alice, Account1, Strong2),
                           Credentials(Alice, <<>>, Strong2)} :
                postLogin(c, cookie[c], ValidCsrf, body, FALSE)
          \/ /\ globalHits[c].totalHits - hits[c].totalHits < MaxOrderForged
             /\ postLogin(c, cookie[c], Csrf(NoSecret, NoToken),
                          Credentials(Alice, Account1, Strong2), FALSE)

MaxProbeRequests == 6

\* probing: logins on both login routes for alice with a wrong password and
\* for bob, who has no account, before and after alice registers
NextProbe ==
    /\ requests < MaxProbeRequests
    /\ requests' = requests + 1
    /\ \E c \in {"client1"} :
          \/ postRegister(c, cookie[c], ValidCsrf, Body(Alice, Account1, Strong),
                          "saltA", FALSE)
          \/ \E body \in {Credentials(Alice, Account1, Strong2),
                           Credentials(Bob, Account2, Strong2)} :
                postLogin(c, cookie[c], ValidCsrf, body, FALSE)
          \/ \E body \in {EmployeeCredentials(Alice, Strong2),
                           EmployeeCredentials(Bob, Strong2)} :
                postEmployeeLogin(c, cookie[c], ValidCsrf, body, FALSE)

MaxRoleRequests == 5

\* roles: a customer's browser registers, logs in on either login route,
\* creates a transaction and calls the employee routes
NextRole ==
    /\ requests < MaxRoleRequests
    /\ requests' = requests + 1
    /\ \E c \in {"client1"} :
          \/ postRegister(c, cookie[c], ValidCsrf, Body(Alice, Account1, Strong),
                          "saltA", FALSE)
          \/ postLogin(c, cookie[c], ValidCsrf,
                       Credentials(Alice, Account1, Strong), FALSE)
          \/ postEmployeeLogin(c, cookie[c], ValidCsrf,
                               EmployeeCredentials(Alice, Strong), FALSE)
          \/ postTransaction(c, cookie[c], ValidCsrf)
          \/ \E id \in PaymentIds : postVerify(c, cookie[c], ValidCsrf, id)
          \/ \E id \in PaymentIds :
                postSubmitToSwift(c, cookie[c], ValidCsrf, {id})
          \/ getMe(c, cookie[c])

Init == InitFlow /\ InitAuth /\ InitGate

\* the Supabase employee portal
SpecPay == Init /\ [][NextPay]_vars

\* the customers' payment lists
SpecOwn == Init /\ [][NextOwn]_vars

\* the api employee portal and the /api/transactions routes
SpecApi == Init /\ [][NextApi]_vars

\* registration and login
SpecAuth == Init /\ [][NextAuth]_vars

\* the lockout of an identity after failed logins
SpecLockout == Init /\ [][NextLockout]_vars

\* failed logins against one identity from several client addresses
SpecStuffing == Init /\ [][NextStuffing]_vars

\* the request budget of a client address
SpecLimit == Init /\ [][NextLimit]_vars

\* csrf protection of the state-changing routes
SpecCsrf == Init /\ [][NextCsrf]_vars

\* the life of a session
SpecSession == Init /\ [][NextSession]_vars

\* the request budget of a client address over all routes
SpecGlobal == Init /\ [][NextGlobal]_vars

\* the order of the admission checks of a login
SpecOrder == Init /\ [][NextOrder]_vars

\* failed logins for known and unknown identities
SpecProbe == Init /\ [][NextProbe]_vars

\* session roles in front of the employee routes
SpecRole == Init /\ [][NextRole]_vars

\* ------------------------------------ Supabase employee login (browser)
\* employee numbers typed into the form; the accounts of Supabase auth, by
\* employee number ("<number>@securbank.employee"), and the rows of the
\* table "employees"
EmployeeNumbers == {"E001", "E002", "E003"}
authUsers == ("E001" :> Strong) @@ ("E002" :> Strong2)
employees == {"E001"}
LoginPasswords == {Strong, Strong2}

LoginPage == "/employee/login"
PortalPage == "/employee/portal"

\* variant: signOut leaves the session in place
signOut_Keep(s) == s

\* supabase.auth.signOut(): the browser holds no session afterwards
signOut(s) == NoAuthSession

\* the page EmployeeLogin is opened: useState(false)
EmployeeLogin(e) ==
    /\ call[e] = NoCall
    /\ location[e] # LoginPage
    /\ location' = [location EXCEPT ![e] = LoginPage]
    /\ isLoading' = [isLoading EXCEPT ![e] = FALSE]
    /\ UNCHANGED <<authVars, now, ops, dbPayments, payments, employeeData,
                   dbTransactions, transactions, selectedTransactions,
                   call, result, authSession>>

\* EmployeeLogin.onSubmit up to its first await: setIsLoading(true),
\* signInWithPassword is sent
employeeLoginOnSubmit(e, employeeNumber, password) ==
    /\ location[e] = LoginPage
    /\ ~isLoading[e]
    /\ call[e] = NoCall
    /\ ops < MaxLoginOps
    /\ ops' = ops + 1
    /\ isLoading' = [isLoading EXCEPT ![e] = TRUE]
    /\ call' = [call EXCEPT ![e] =
                  [op |-> "signInWithPassword", employeeNumber |-> employeeNumber,
                   password |-> password, attempt |-> ops + 1]]
    /\ UNCHANGED <<authVars, now, dbPayments, payments, employeeData,
                   dbTransactions, transactions, selectedTransactions,
                   result, loginVars>>

\* catch and finally of onSubmit: the destructive toast, setIsLoading(false)
LoginFailed(e, message) ==
    /\ result' = [result EXCEPT ![e] =
                    [op |-> "login", ok |-> FALSE, error |-> message,
                     attempt |-> call[e].attempt]]
    /\ isLoading' = [isLoading EXCEPT ![e] = FALSE]
    /\ call' = [call EXCEPT ![e] = NoCall]

\* signInWithPassword answers: an error (wrong password, unknown account, or
\* the request failed) throws; a sign-in stores the session and the select
\* on "employees" is sent
signInWithPasswordDone(e, failed) ==
    /\ call[e].op = "signInWithPassword"
    /\ LET d == call[e]
           signInError == \/ failed
                          \/ d.employeeNumber \notin DOMAIN authUsers
                          \/ authUsers[d.employeeNumber] # d.password
       IN  IF signInError
           THEN /\ LoginFailed(e, "Invalid credentials")
                /\ UNCHANGED loginVars
           ELSE /\ authSession' = [authSession EXCEPT ![e] =
                        [user |-> d.employeeNumber, attempt |-> d.attempt]]
                /\ call' = [call EXCEPT ![e] =
                        [d EXCEPT !.op = "employees.select"]]
                /\ UNCHANGED <<isLoading, result, location>>
    /\ UNCHANGED <<authVars, now, ops, dbPayments, payments, employeeData,
                   dbTransactions, transactions, selectedTransactions>>

\* the select on "employees" answers: with a row, the toast and
\* navigate("/employee/portal"); with no row or an error, signOut is sent
employeesSelectDone(e, employeeError) ==
    /\ call[e].op = "employees.select"
    /\ LET d == call[e]
           employee == IF d.employeeNumber \in employees
                       THEN d.employeeNumber ELSE NULL
       IN  IF employeeError \/ employee = NULL
           THEN /\ call' = [call EXCEPT ![e] = [d EXCEPT !.op = "signOut"]]
                /\ UNCHANGED <<isLoading, result, loginVars>>
           ELSE /\ result' = [result EXCEPT ![e] =
                        [op |-> "login", ok |-> TRUE, error |-> "",
                         attempt |-> d.attempt]]
                /\ location' = [location EXCEPT ![e] = PortalPage]
                /\ isLoading' = [isLoading EXCEPT ![e] = FALSE]
                /\ call' = [call EXCEPT ![e] = NoCall]
                /\ UNCHANGED authSession
    /\ UNCHANGED <<authVars, now, ops, dbPayments, payments, employeeData,
                   dbTransactions, transactions, selectedTransactions>>

\* signOut answers: throw, catch, finally
signOutDone(e) ==
    /\ call[e].op = "signOut"
    /\ authSession' = [authSession EXCEPT ![e] = signOut(@)]
    /\ LoginFailed(e, "Employee number not found in our records.")
    /\ UNCHANGED location
    /\ UNCHANGED <<authVars, now, ops, dbPayments, payments, employeeData,
                   dbTransactions, transactions, selectedTransactions>>

NextLogin ==
    \E e \in Employees :
        \/ EmployeeLogin(e)
        \/ \E n \in EmployeeNumbers, p \in LoginPasswords :
               employeeLoginOnSubmit(e, n, p)
        \/ \E failed \in BOOLEAN : signInWithPasswordDone(e, failed)
        \/ \E employeeError \in BOOLEAN : employeesSelectDone(e, employeeError)
        \/ signOutDone(e)

\* the Supabase employee login page
SpecLogin == Init /\ [][NextLogin]_vars

\* ============================================================ workflow claims
\* position of a status on the path pending -> verified -> submitted -> completed
Rank(status) ==
    CASE status = "pending" -> 0
      [] status = "verified" -> 1
      [] status \in {"submitted", "submitted_to_swift"} -> 2
      [] status = "completed" -> 3
      [] OTHER -> 4

\* C1: a verify call sets a payment to verified only when the payment is
\* pending at the moment of the update; on a payment in any other status the
\* call fails and leaves status, verified_by and verified_at as they were.
C1_VerifyOnlyIfPending ==
    \A e \in Employees :
        result[e].op = "verify" =>
            /\ (result[e].post # result[e].pre => result[e].pre.status = "pending")
            /\ (result[e].pre.status # "pending" =>
                    ~result[e].ok /\ result[e].post = result[e].pre)

\* C2: a payment becomes submitted_to_swift only in a step that finds it
\* verified, and a submit request that reaches a payment which is not verified
\* (pending, or already submitted) leaves the table as it was.
C2_SubmittedOnlyFromVerified ==
    [][ /\ \A id \in DOMAIN dbPayments :
              (dbPayments'[id].status = "submitted_to_swift"
                  /\ dbPayments[id].status # "submitted_to_swift")
              => dbPayments[id].status = "verified"
        /\ \A e \in Employees :
              (call[e].op = "submit" /\ call'[e].op = "none"
                  /\ dbPayments[call[e].id].status # "verified")
              => dbPayments' = dbPayments ]_vars

\* a first submit found the payment verified and a second submit, sent from a
\* page fetched before the first, found it already submitted
C2_Witness ==
    \E e1, e2 \in Employees :
        /\ result[e1].op = "submit" /\ result[e1].pre.status = "verified"
        /\ result[e2].op = "submit" /\ result[e2].id = result[e1].id
        /\ result[e2].pre.status = "submitted_to_swift"
        /\ dbPayments[result[e1].id].status = "submitted_to_swift"

\* both employees finished a verify of the same payment, each sent while the
\* payment was still pending
ConcurrentVerify(e1, e2) ==
    /\ e1 # e2
    /\ result[e1].op = "verify" /\ result[e2].op = "verify"
    /\ result[e1].id = result[e2].id
    /\ result[e1].seen = "pending" /\ result[e2].seen = "pending"
    /\ call[e1].op = "none" /\ call[e2].op = "none"

\* C3: of two concurrent verify calls on one pending payment exactly one
\* succeeds, and the payment keeps the verifier and timestamp of that call.
C3_ExactlyOneConcurrentVerify ==
    \A e1, e2 \in Employees :
        ConcurrentVerify(e1, e2) =>
            /\ result[e1].ok # result[e2].ok
            /\ LET w == IF result[e1].ok THEN e1 ELSE e2
                   row == dbPayments[result[w].id]
               IN /\ row.verified_by = result[w].post.verified_by
                  /\ row.verified_at = result[w].post.verified_at

\* both employees finished a submit of the same payment, each sent while the
\* payment was verified
ConcurrentSubmit(e1, e2) ==
    /\ e1 # e2
    /\ result[e1].op = "submit" /\ result[e2].op = "submit"
    /\ result[e1].id = result[e2].id
    /\ result[e1].seen = "verified" /\ result[e2].seen = "verified"
    /\ call[e1].op = "none" /\ call[e2].op = "none"

\* C4: of two concurrent submits of one verified payment exactly one makes the
\* verified -> submitted transition and exactly one reports the submission.
C4_ExactlyOneConcurrentSubmit ==
    \A e1, e2 \in Employees :
        ConcurrentSubmit(e1, e2) =>
            /\ (result[e1].post # result[e1].pre) # (result[e2].post # result[e2].pre)
            /\ result[e1].ok # result[e2].ok

\* C5: every step leaves each payment's status where it is or moves it one
\* place forward on pending -> verified -> submitted -> completed.
C5_ForwardOneStep ==
    [][ \A id \in DOMAIN dbPayments :
            \/ Rank(dbPayments'[id].status) = Rank(dbPayments[id].status)
            \/ Rank(dbPayments'[id].status) = Rank(dbPayments[id].status) + 1
      ]_vars

\* C6: the count shown to the employee after submitToSwift is the number of
\* transactions the request moved to submitted, whatever the mix of statuses.
C6_ShownCountIsSubmittedCount ==
    \A e \in Employees :
        result[e].op = "submit" =>
            /\ result[e].submittedCount = Cardinality(result[e].changed)
            /\ result[e].shown = Cardinality(result[e].changed)

\* ======================================================= registration claims
\* client c's register request reaches the handler in this step: it is either
\* answered at once or goes on to hashing and User.create
RegisterArrives(c) ==
    /\ requests' = requests + 1
    /\ lastClient' = c
    /\ \/ req'[c].pc = "create"
       \/ resp'[c].op = "register"

\* the body of that request
ArrivedBody(c) == IF req'[c].pc = "create" THEN req'[c].body ELSE resp'[c].body

\* the request was answered at once, with this status and message, and is over
AnsweredAtOnce(c, status, error) ==
    /\ resp'[c].status = status
    /\ resp'[c].error = error
    /\ req'[c].pc = "idle"

\* some stored user has the username, the derived email or the account number
\* of the request
Conflicts(d) ==
    \E i \in DOMAIN users :
        \/ users[i].username = d.username
        \/ users[i].email = d.username \o <<"@", "securbank.internal">>
        \/ users[i].accountNumber = d.accountNumber

\* C7: a well-formed register request whose username, derived email or account
\* number is that of a stored user is answered 409 'User already exists' and
\* creates no record, also when only the account number coincides.
C7_DuplicateIsConflict ==
    [][ \A c \in Clients :
            (/\ RegisterArrives(c)
             /\ RegisterSuccess(ArrivedBody(c))
             /\ Conflicts(RegisterData(ArrivedBody(c))))
            => (AnsweredAtOnce(c, 409, "User already exists") /\ users' = users)
      ]_vars

\* a request was answered 409 although its username is not a stored one: only
\* the account number coincides
C7_Witness ==
    \E c \in Clients :
        /\ resp[c].op = "register" /\ resp[c].status = 409
        /\ \A i \in DOMAIN users : users[i].username # Trim(resp[c].body.username)
        /\ \E i \in DOMAIN users : users[i].accountNumber = resp[c].body.accountNumber

\* C8: no two user records share a username, an email or an account number,
\* whatever the interleaving of register requests.
C8_UniqueIdentity ==
    \A i, j \in DOMAIN users :
        i # j => /\ users[i].username # users[j].username
                 /\ users[i].email # users[j].email
                 /\ users[i].accountNumber # users[j].accountNumber

\* the strength policy: at least 8 characters, with an uppercase letter, a
\* lowercase letter, a digit and a symbol
FailsPolicy(p) ==
    \/ Len(p) < 8
    \/ \A i \in 1..Len(p) : p[i] \notin UPPER
    \/ \A i \in 1..Len(p) : p[i] \notin LOWER
    \/ \A i \in 1..Len(p) : p[i] \notin DIGIT
    \/ \A i \in 1..Len(p) : p[i] \in UPPER \cup LOWER \cup DIGIT

\* C9: a register request whose password fails the strength policy is answered
\* 400 'Invalid input' and the credential store stays as it was.
C9_WeakPasswordRejected ==
    [][ \A c \in Clients :
            (RegisterArrives(c) /\ FailsPolicy(ArrivedBody(c).password))
            => (AnsweredAtOnce(c, 400, "Invalid input") /\ users' = users)
      ]_vars

\* a user is stored and a request with a password that only lacks a digit was
\* refused
C9_Witness ==
    /\ users # <<>>
    /\ \E c \in Clients :
        /\ resp[c].op = "register" /\ resp[c].status = 400
        /\ resp[c].body.password = NoDigit

\* c1's registration succeeded and c2's last login, handled when the new
\* record was in the store, names the same username and account number
LoginAfterRegister(c1, c2) ==
    /\ resp[c1].op = "register" /\ resp[c1].status = 201
    /\ resp[c2].op = "login" /\ resp[c2].stored >= resp[c1].uid
    /\ Trim(resp[c2].body.username) = Trim(resp[c1].body.username)
    /\ Trim(resp[c2].body.accountNumber) = Trim(resp[c1].body.accountNumber)

\* the first n characters of s
Leading(s, n) == IF Len(s) > n THEN SubSeq(s, 1, n) ELSE s

\* C10 as stated: the stored hash differs from the password, and a later login
\* passes the hash comparison exactly when it carries the registered password.
C10_OnlyTheRegisteredPassword ==
    \A c1, c2 \in Clients :
        LoginAfterRegister(c1, c2) =>
            /\ users[resp[c1].uid].passwordHash # resp[c1].body.password
            /\ resp[c2].compared <=> (resp[c2].body.password = resp[c1].body.password)

\* C10 amended: the stored hash differs from the password, and a later login
\* passes the hash comparison exactly when its password agrees with the
\* registered one on the first 72 bytes.
C10_HashRoundTrip ==
    \A c1, c2 \in Clients :
        LoginAfterRegister(c1, c2) =>
            /\ users[resp[c1].uid].passwordHash # resp[c1].body.password
            /\ resp[c2].compared <=>
                   (Leading(resp[c2].body.password, 72) = Leading(resp[c1].body.password, 72))

\* a login with the registered password was answered 200
C10_Witness ==
    \E c1, c2 \in Clients :
        /\ LoginAfterRegister(c1, c2)
        /\ resp[c2].body.password = resp[c1].body.password
        /\ resp[c2].status = 200
        /\ session[c2].uid = resp[c1].uid


\* ============================================================ lockout claims
\* a request of client c arrives: every request moves the global limiter
Arrives(c) == globalHits'[c] # globalHits[c]

LoginOps == {"login", "employeeLogin"}

\* the identity has MaxFailedAttempts consecutive failures, the oldest of them
\* less than a lockout window before `t`
FailedOut(f, t) ==
    /\ Len(f.times) = MaxFailedAttempts
    /\ t - f.times[1] < LockoutWindow

\* C11: when an identity has five consecutive 401 answers inside the lockout
\* window, the next login against it is answered 429, whatever its password,
\* and sets no session cookie and stores no session.
C11_SixthAttemptIsRateLimited ==
    [][\A c \in Clients :
          (/\ Arrives(c)
           /\ reply'.op \in LoginOps
           /\ FailedOut(FailsOf(IdentityOf(reply'.op, reply'.body)), clock))
          => /\ reply'.status = 429
             /\ reply'.setCookie = NoSid
             /\ DOMAIN store' \subseteq DOMAIN store
             /\ nextSid' = nextSid]_vars

\* alice's sixth attempt carried her password and was refused by the lockout
C11_Witness ==
    /\ reply.op = "login"
    /\ reply.body = Credentials(Alice, Account1, Strong)
    /\ LoginStatus(users, reply.body) = 200
    /\ FailedOut(reply.before, clock)
    /\ reply.by = "bruteForce"
    /\ reply.status = 429

\* C12: failures against an identity count toward its lockout whichever client
\* sent them, and a login with the right credentials for an identity that has
\* no failures of its own is not refused by the lockout of another identity.
C12_LockoutIsPerIdentity ==
    [][\A c \in Clients :
          (Arrives(c) /\ reply'.op \in LoginOps)
          => LET key == IdentityOf(reply'.op, reply'.body)
             IN /\ FailedOut(FailsOf(key), clock) => reply'.status = 429
                /\ (/\ FailsOf(key) = NoFails
                    /\ reply'.op = "login"
                    /\ LoginStatus(users, reply'.body) = 200
                    /\ reply'.by \notin {"authLimiter", "rateLimit", "csrf"})
                   => reply'.status = 200]_vars

\* alice logged in while bob's identity was locked out by failures that came
\* from both clients
C12_Witness ==
    /\ reply.op = "login"
    /\ reply.body = Credentials(Alice, Account1, Strong)
    /\ reply.status = 200
    /\ FailedOut(FailsOf(<<Bob, Account2>>), clock)
    /\ FailsOf(<<Bob, Account2>>).from = Clients

\* the consecutive failures the times in `s` make up for the lockout: a gap of
\* a lockout window or more starts the count again
RECURSIVE Run(_)
Run(s) ==
    IF Len(s) <= 1 THEN Len(s)
    ELSE IF s[Len(s)] - s[Len(s) - 1] >= LockoutWindow THEN 1
    ELSE 1 + Run(SubSeq(s, 1, Len(s) - 1))

\* C13: the lockout counter of an identity is the number of its consecutive
\* 401 answers; a 200 answer sets it back to zero, and a login against an
\* identity without failures is never refused by the lockout.
C13_CounterCountsFailures ==
    [][\A c \in Clients :
          (Arrives(c) /\ reply'.op \in LoginOps)
          => LET key == KeyOf(c, reply'.op, reply'.body)
                 id == IdentityOf(reply'.op, reply'.body)
             IN /\ BruteOf(brute', key).count = Run(FailsIn(fails', id).times)
                /\ reply'.status = 200 => BruteOf(brute', key).count = 0
                /\ reply'.status = 401 =>
                      BruteOf(brute', key).count = Run(Append(FailsOf(id).times, clock))
                /\ reply'.status \notin {200, 401} =>
                      BruteOf(brute', key) = BruteOf(brute, key)
                /\ FailsOf(id) = NoFails => reply'.by # "bruteForce"]_vars

\* a login succeeded after failures and the counter went back to zero
C13_Witness ==
    /\ reply.op = "login"
    /\ reply.status = 200
    /\ Len(reply.before.times) > 0
    /\ Len(reply.before.times) < MaxFailedAttempts
    /\ BruteOf(brute, LoginKey(reply.client, reply.body)).count = 0

\* C14: when an identity was locked out and a lockout window has passed since
\* its last failure, a login with the right password is answered 200 and sets
\* the cookie of a new session that holds the user.
C14_LockoutIsTemporary ==
    [][\A c \in Clients :
          (/\ Arrives(c)
           /\ reply'.op = "login"
           /\ LoginStatus(users, reply'.body) = 200
           /\ Len(FailsOf(IdentityOf("login", reply'.body)).times) = MaxFailedAttempts
           /\ clock - FailsOf(IdentityOf("login", reply'.body)).times[MaxFailedAttempts]
                 >= LockoutWindow
           /\ reply'.by \notin {"authLimiter", "rateLimit", "csrf"})
          => /\ reply'.status = 200
             /\ reply'.setCookie \notin DOMAIN store
             /\ reply'.setCookie \in DOMAIN store'
             /\ store'[reply'.setCookie].uid = reply'.uid
             /\ users[reply'.uid].username = LoginData(reply'.body).username]_vars

\* alice was locked out, the window passed, and she logged in
C14_Witness ==
    /\ reply.op = "login"
    /\ reply.status = 200
    /\ Len(reply.before.times) = MaxFailedAttempts
    /\ clock >= LockoutWindow
    /\ reply.setCookie \in DOMAIN store

\* ====================================================== request budget claims
AuthOps == {"register", "login", "employeeLogin", "logout", "me"}

\* C15: the requests of one client to the /api/auth routes share one count per
\* window of 60 seconds; the first 20 of a window reach the handler (or the
\* lockout in front of it), every further one is answered 429 by the limiter
\* and leaves the users, the sessions and the lockout counters as they were;
\* a request the lockout refuses is counted like any other.
C15_AuthBudget ==
    [][\A c \in Clients :
          Arrives(c) /\ reply'.op \in AuthOps /\ reply'.by \notin {"rateLimit", "csrf"}
          => LET n == hits'[c].totalHits
             IN /\ reply'.client = c
                /\ n = IF clock < hits[c].resetTime THEN hits[c].totalHits + 1 ELSE 1
                /\ hits'[c].resetTime - windowMs <= clock
                /\ clock < hits'[c].resetTime
                /\ n <= AuthLimit => reply'.by \in {"handler", "bruteForce"}
                /\ n > AuthLimit =>
                      /\ reply'.by = "authLimiter"
                      /\ reply'.status = 429
                      /\ users' = users
                      /\ brute' = brute
                      /\ nextSid' = nextSid
                      /\ cookie' = cookie
                      /\ DOMAIN store' \subseteq DOMAIN store]_vars

\* the 21st request of a window was a login against an identity the lockout
\* holds, and the limiter refused it
C15_Witness ==
    /\ reply.op = "login"
    /\ reply.by = "authLimiter"
    /\ reply.status = 429
    /\ hits[reply.client].totalHits = AuthLimit + 1
    /\ Locked(brute, KeyOf(reply.client, "login", reply.body), clock)

\* ================================================================ csrf claims
PostOps == {"register", "login", "employeeLogin", "logout", "transaction"}

\* what a session says: who is logged in and in which role
Bound(st) == [s \in DOMAIN st |-> [uid |-> st[s].uid, role |-> st[s].role]]

RotatingOps == {"register", "login", "employeeLogin"}

\* C17: a registration, login or employee login that succeeds leaves no
\* session under the id the request presented, issues an id the store has
\* not held before, binds the authenticated user to it and to no other
\* session, and sends the new id in the sid cookie.
C17_SessionIdRegenerated ==
    [][\A c \in Clients :
          (/\ Arrives(c)
           /\ reply'.op \in RotatingOps
           /\ reply'.status \in {200, 201})
          => LET new == reply'.setCookie
             IN /\ reply'.sid \notin DOMAIN store'
                /\ new \notin {NoSid, ClearCookie, reply'.sid}
                /\ new \notin DOMAIN store
                /\ new >= nextSid
                /\ new \in DOMAIN store'
                /\ store'[new].uid = reply'.uid
                /\ store'[new].uid \in DOMAIN users'
                /\ cookie'[c] = new
                /\ \A s \in DOMAIN store' \ {new} :
                      s \in DOMAIN store /\ store'[s] = store[s]]_vars

\* a login that presented the live session of the registration succeeded
C17_Witness ==
    /\ reply.op = "login"
    /\ reply.status = 200
    /\ clock = 0
    /\ reply.sid = 1
    /\ reply.setCookie = 2
    /\ DOMAIN store = {2}
    /\ store[2].uid = 1

\* C18: a logout answered 200 leaves no session under the id it presented and
\* tells the browser to clear the sid cookie; an id the server has issued and
\* no longer holds never holds a session again, whatever logins follow, and
\* GET /me presenting such an id is answered 401 Unauthorized.
C18_LogoutEndsSession ==
    [][/\ \A c \in Clients :
            Arrives(c) /\ reply'.op = "logout" /\ reply'.status = 200
            => /\ reply'.sid \notin DOMAIN store'
               /\ reply'.setCookie = ClearCookie
               /\ cookie'[c] = NoSid
       /\ \A s \in Sids \ DOMAIN store : s \notin DOMAIN store'
       /\ \A c \in Clients :
            (/\ Arrives(c)
             /\ reply'.op = "me"
             /\ reply'.sid \notin DOMAIN store)
            => /\ reply'.status = 401
               /\ reply'.error = "Unauthorized"]_vars

\* after registration and logout, GET /me with the id of the registration
\* was answered 401 before the session could have expired
C18_Witness ==
    /\ reply.op = "me"
    /\ reply.status = 401
    /\ reply.sid = 1
    /\ nextSid = 2
    /\ clock = 0
    /\ Len(users) = 1
    /\ store = <<>>
    /\ cookie["client1"] = NoSid

\* C19: GET /me presenting a session that was created an hour or more ago is
\* answered 401, whatever requests came in between.
C19_FixedTtl ==
    [][\A c \in Clients :
          (/\ Arrives(c)
           /\ reply'.op = "me"
           /\ reply'.by = "handler"
           /\ reply'.sid \in DOMAIN store
           /\ clock - store[reply'.sid].created >= maxAge)
          => reply'.status = 401]_vars

\* C20: no session with role employee belongs to a registered customer: the
\* users collection holds the customers that registered, and an employee
\* login with a customer's username or ID number and password does not end
\* in a session with that role.
C20_EmployeeScope ==
    \A s \in DOMAIN store :
        store[s].role = "employee" => store[s].uid \notin DOMAIN users

\* =========================================================== role claims
\* C21: the status of a transaction changes only in a request whose session
\* has role employee and belongs to no registered customer (the users
\* collection holds the customers that registered).
C21_OnlyEmployeesChangeStatus ==
    [][\A id \in DOMAIN dbTransactions :
          dbTransactions'[id].status # dbTransactions[id].status
          => /\ Session(reply'.sid).role = "employee"
             /\ Session(reply'.sid).uid \notin DOMAIN users]_vars

\* ===================================================== failed login claims
\* the credential check of a well-formed login request fails: no user is
\* found, or the password does not match the hash of the user found
NoSuchUser(op, body) ==
    IF op = "login"
    THEN FindUser(users, LoginData(body)) = {}
    ELSE FindEmployee(users, EmployeeLoginData(body).employeeNumber) = {}

WrongPassword(op, body) ==
    LET found == IF op = "login"
                 THEN FindUser(users, LoginData(body))
                 ELSE FindEmployee(users, EmployeeLoginData(body).employeeNumber)
    IN /\ found # {}
       /\ ~BcryptCompare(body.password, users[First(found)].passwordHash)

WellFormed(op, body) ==
    IF op = "login" THEN LoginSuccess(body) ELSE EmployeeLoginSuccess(body)

\* C22: a well-formed login or employee login that reaches the handler and
\* fails its credential check is answered 401 'Invalid credentials' without a
\* cookie or a session, and adds one failure, dated now, to the lockout count
\* of its identity: the same whether the user is unknown or the password is
\* wrong.
C22_FailuresLookAlike ==
    [][\A c \in Clients :
          (/\ Arrives(c)
           /\ reply'.op \in LoginOps
           /\ reply'.by = "handler"
           /\ WellFormed(reply'.op, reply'.body)
           /\ NoSuchUser(reply'.op, reply'.body) \/ WrongPassword(reply'.op, reply'.body))
          => LET key == KeyOf(c, reply'.op, reply'.body)
                 id == IdentityOf(reply'.op, reply'.body)
             IN /\ reply'.status = 401
                /\ reply'.error = "Invalid credentials"
                /\ reply'.setCookie = NoSid
                /\ reply'.uid = 0
                /\ cookie' = cookie
                /\ nextSid' = nextSid
                /\ DOMAIN store' \subseteq DOMAIN store
                /\ BruteOf(brute', key).count = Run(Append(FailsOf(id).times, clock))
                /\ BruteOf(brute', key).count = Len(FailsOf(id).times) + 1
                /\ BruteOf(brute', key).last = clock]_vars

\* bob, who has no account, was just refused, and alice (wrong password) and
\* bob have two failures each on the login route
C22_Witness ==
    /\ reply.op = "login"
    /\ reply.status = 401
    /\ reply.body = Credentials(Bob, Account2, Strong2)
    /\ Len(users) = 1
    /\ BruteOf(brute, <<Alice, Account1>>).count = 2
    /\ BruteOf(brute, <<Bob, Account2>>).count = 2

\* ======================================================== ownership claims
\* the payments a customer has created
CreatedBy(c) == {id \in DOMAIN dbPayments : dbPayments[id].customer_id = c}

GenericMessages ==
    {"Server error", "Session error", "Failed to logout", "Internal Server Error"}

\* C24: a request to an /api/auth route whose database or session store call
\* fails is answered, with status 500 and one of the generic messages.
C24_FailuresAnswered500 ==
    [][\A c \in Clients :
          (/\ Arrives(c)
           /\ reply'.op \in AuthOps
           /\ reply'.by \in {"catch", "unhandled"} \/ reply'.status \in {0, 500})
          => /\ reply'.status = 500
             /\ reply'.error \in GenericMessages]_vars

\* ================================================== global limiter claims
\* the window the README states for the global limiter
DocumentedWindow == 15 * 60 * 1000

\* C25: of the requests one client sends within 15 minutes, whatever the
\* route, the 101st and every later one is answered 429 by the global limiter
\* (client1 is the only sender, so `requests` counts its requests).
C25_HundredPerQuarterHour ==
    [][(/\ Arrives("client1")
        /\ clock < DocumentedWindow
        /\ requests' > GlobalLimit)
       => /\ reply'.by = "rateLimit"
          /\ reply'.status = 429]_vars

\* ===================================================== verification record
\* C26: a payment that is verified or later names the employee who verified
\* it and the time of the verification, and a pending payment names neither.
C26_VerifiedHasVerifier ==
    \A id \in DOMAIN dbPayments :
        LET row == dbPayments[id]
        IN /\ row.status = "pending"
              => row.verified_by = NULL /\ row.verified_at = NULL_AT
           /\ row.status \in {"verified", "submitted_to_swift", "completed"}
              => row.verified_by \in Employees /\ row.verified_at # NULL_AT
           /\ row.status \in {"pending", "verified", "submitted_to_swift", "completed"}

\* one payment has been verified and submitted, another is still pending
C26_Witness ==
    \E i, j \in DOMAIN dbPayments :
        /\ dbPayments[i].status = "submitted_to_swift"
        /\ dbPayments[i].verified_by \in Employees
        /\ dbPayments[j].status = "pending"

\* C27: a register request that is answered with anything but 201 leaves
\* the users collection as it was.
C27_RegisterAllOrNothing ==
    [][\A c \in Clients :
          (/\ Arrives(c)
           /\ reply'.op = "register"
           /\ reply'.status # 201)
          => users' = users]_vars

\* ======================================================= admission order
\* the first check that stops a login request of client c, told from the
\* state the request finds and from what it carries
StoppedBy(c, r) ==
    IF (IF clock < globalHits[c].resetTime THEN globalHits[c].totalHits + 1 ELSE 1)
          > GlobalLimit
    THEN "rateLimit"
    ELSE IF ~VerifyToken(r.csrf.secret, r.csrf.token) THEN "csrf"
    ELSE IF (IF clock < hits[c].resetTime THEN hits[c].totalHits + 1 ELSE 1)
               > AuthLimit
    THEN "authLimiter"
    ELSE IF Locked(brute, KeyOf(c, r.op, r.body), clock) THEN "bruteForce"
    ELSE "handler"

C29_RoleOfLatestLogin ==
    [][/\ \A c \in Clients :
            (/\ Arrives(c)
             /\ reply'.op \in RotatingOps
             /\ reply'.status \in {200, 201})
            => /\ store'[reply'.setCookie].role =
                     IF reply'.op = "employeeLogin" THEN "employee" ELSE "none"
               /\ cookie'[c] = reply'.setCookie
       /\ \A s \in DOMAIN store \cap DOMAIN store' : store'[s].role = store[s].role
       /\ \A c \in Clients :
            (/\ Arrives(c)
             /\ reply'.op = "me"
             /\ reply'.status = 200)
            => reply'.role = IF store[reply'.sid].role = "employee"
                             THEN "employee" ELSE "customer"]_vars

\* a customer login presented the cookie of an employee session, and the
\* session it got carries no employee role
C29_Witness ==
    /\ reply.op = "login"
    /\ reply.status = 200
    /\ reply.had = "employee"
    /\ reply.sid \notin DOMAIN store
    /\ store[reply.setCookie].role = "none"
    /\ cookie[reply.client] = reply.setCookie

====
